---- MODULE Spec2Model ----
(***************************************************************************)
(* ATLAS: fact resolution and unit-economics inference.                    *)
(*                                                                         *)
(* Numbers are exact rationals [k |-> "num", n, d] in lowest terms with    *)
(* d > 0; Python's None is NoneV and a key that is not in a dict is        *)
(* Absent.  Floating-point rounding is not modelled.                       *)
(***************************************************************************)
EXTENDS Integers, Sequences, FiniteSets, TLC

VARIABLES
    \* solve_missing_values
    lib,        \* behaviour of the installed SymPy build (see SolveLibs)
    ue_model,   \* the mapping passed to solve_missing_values
    updated,    \* the working copy
    changed,    \* the progress flag
    passes,     \* number of passes of the while loop started so far
    idx,        \* position of the for loop in the rule table (1-based)
    fired,      \* per rule: how many times it recorded a value
    table,      \* the order in which the for loop visits the rules
    pc,         \* control state of solve_missing_values
    \* check_consistency
    ck_name,    \* identity name
    ck_inputs,  \* value mapping
    ck_tol,     \* tolerance
    ck_result,  \* "pending", "True" or "False"; enforce_all: how the call ended
    violations, \* enforce_all: the violations collected, in order
    \* compute_unit_economics / CostStructureEngine.compute_all
    stack,      \* the interpreter's call stack, innermost frame last
    entries,    \* number of times compute_unit_economics was entered
    overflows,  \* number of RecursionErrors raised
    outcome,    \* "running", "returned" or "raised"
    periods,    \* number of periods of the cost series
    \* resolve
    concept,    \* the text passed to resolve
    backend,    \* the embedding backend: "missing" or the best canonical it scores
    resolved,   \* the value returned, <<>> before the call
    rdone,      \* whether resolve has returned
    \* build_concept_series
    all_facts,  \* the fact list of the filing
    sconcept,   \* the concept asked for
    fallback,   \* the name resolve_to_fact picks (0: none)
    series,     \* the returned list of <<year, value>>
    sdone,      \* whether build_concept_series has returned
    \* FactIndex
    contexts,   \* the context table, in insertion order
    facts,      \* the indexed facts
    q_tag,      \* get_fact: tag asked for
    q_period,   \* get_fact: period alias asked for
    gf_result,  \* get_fact: "pending", or the outcome of the call
    rp_result,  \* resolve_period: "pending", or the outcome of the call
    \* _compute_yoy, compute_fixed_variable_split, _ema
    call_args,  \* the arguments of the call
    call_ret,   \* whether the call is done, and its outcome
    \* embed / _load_model
    installed,  \* whether sentence_transformers could be imported
    _model,     \* the module global: 0 for None, else the instance loaded
    loads,      \* number of SentenceTransformer instances constructed
    cache,      \* the lru_cache of embed: entries, least recently used first
    th,         \* per thread: where it is in embed and its locals
    returned    \* the outcomes of the calls of embed that have ended

solveVars   == <<lib, ue_model, updated, changed, passes, idx, fired, table, pc>>
checkVars   == <<ck_name, ck_inputs, ck_tol, ck_result, violations>>
chainVars   == <<stack, entries, overflows, outcome, periods>>
resolveVars == <<concept, backend, resolved, rdone>>
seriesVars  == <<all_facts, sconcept, fallback, series, sdone>>
indexVars   == <<contexts, facts, q_tag, q_period, gf_result, rp_result>>

callVars    == <<call_args, call_ret>>
embedVars   == <<installed, _model, loads, cache, th, returned>>

vars == <<solveVars, checkVars, chainVars, resolveVars, seriesVars, indexVars, callVars, embedVars>>

----------------------------------------------------------------------------
(* Bounds of the model *)

MaxVal == 2
MaxPasses == 12
MaxPeriods == 2
MaxTextLen == 3
MaxFacts == 3
MaxContexts == 2
MaxIndexFacts == 2
\* frames the interpreter allows (sys.getrecursionlimit()), scaled down
RecursionLimit == 40
\* frames a function body needs below itself for its helper calls
HelperDepth == 2
MaxSeriesLen == 3

----------------------------------------------------------------------------
(* Exact arithmetic *)

Abs(x) == IF x < 0 THEN -x ELSE x

RECURSIVE GCD(_, _)
GCD(a, b) == IF b = 0 THEN a ELSE GCD(b, a % b)

Absent == [k |-> "absent", n |-> 0, d |-> 1]
NoneV  == [k |-> "none", n |-> 0, d |-> 1]
Undef  == [k |-> "undef", n |-> 0, d |-> 1]

Num(n, d) ==
    LET s == IF d < 0 THEN -1 ELSE 1
        g == GCD(Abs(n), Abs(d))
    IN  [k |-> "num", n |-> (s * n) \div g, d |-> (s * d) \div g]

Int2Num(i) == [k |-> "num", n |-> i, d |-> 1]

IsNum(x) == x.k = "num"
IsZero(x) == x.k = "num" /\ x.n = 0

Add(x, y) == IF IsNum(x) /\ IsNum(y) THEN Num(x.n * y.d + y.n * x.d, x.d * y.d) ELSE Undef
Neg(x)    == IF IsNum(x) THEN Num(-x.n, x.d) ELSE Undef
Sub(x, y) == Add(x, Neg(y))
Mul(x, y) == IF IsNum(x) /\ IsNum(y) THEN Num(x.n * y.n, x.d * y.d) ELSE Undef
\* a zero denominator has no value (SymPy: zoo or nan)
Div(x, y) == IF IsNum(x) /\ IsNum(y) /\ y.n # 0 THEN Num(x.n * y.d, x.d * y.n) ELSE Undef
AbsNum(x) == IF IsNum(x) THEN Num(Abs(x.n), x.d) ELSE Undef
Less(x, y) == IsNum(x) /\ IsNum(y) /\ x.n * y.d < y.n * x.d

\* dict.get(key) is None
IsNone(x) == x.k \in {"absent", "none"}

----------------------------------------------------------------------------
(* economic_identities.py *)

Symbols == {
    "Revenue", "COGS_variable", "ContributionMargin", "VolumeDriver",
    "ContributionMarginPerUnit", "RevenuePerUnit", "VariableCostPerUnit",
    "CAC", "SalesMarketing", "RetentionMarketing", "GrossNewCustomers",
    "DeltaCustomers", "ChurnedCustomers", "Customers_start", "ChurnRate",
    "ReinvestmentRate", "Capex", "DeltaWorkingCapital", "RnD", "NOPAT",
    "ROIC", "OperatingIncome", "TaxRate", "InvestedCapital",
    "PPE", "NetWorkingCapital", "Goodwill", "AcquiredIntangibles",
    "ElasticityRevenue", "ElasticityNewUnits", "ElasticityRevShare",
    "SalesCommissions", "PaymentProcessing" }

\* Eq(lhs, num / den): den = "" when the right-hand side has no quotient
IDENTITIES == [
    CAC_Identity |->
        [lhs |-> "CAC", den |-> "GrossNewCustomers",
         free |-> {"CAC", "SalesMarketing", "RetentionMarketing", "GrossNewCustomers"}],
    GrossNewCustomers_Identity |->
        [lhs |-> "GrossNewCustomers", den |-> "",
         free |-> {"GrossNewCustomers", "DeltaCustomers", "ChurnedCustomers"}],
    ChurnedCustomers_Identity |->
        [lhs |-> "ChurnedCustomers", den |-> "",
         free |-> {"ChurnedCustomers", "Customers_start", "ChurnRate"}],
    ContributionMargin_Identity |->
        [lhs |-> "ContributionMarginPerUnit", den |-> "VolumeDriver",
         free |-> {"ContributionMarginPerUnit", "Revenue", "COGS_variable", "VolumeDriver"}],
    UnitRevenue_Identity |->
        [lhs |-> "RevenuePerUnit", den |-> "VolumeDriver",
         free |-> {"RevenuePerUnit", "Revenue", "VolumeDriver"}],
    VariableCostPerUnit_Identity |->
        [lhs |-> "VariableCostPerUnit", den |-> "VolumeDriver",
         free |-> {"VariableCostPerUnit", "COGS_variable", "VolumeDriver"}],
    ContributionMargin_Check |->
        [lhs |-> "ContributionMarginPerUnit", den |-> "",
         free |-> {"ContributionMarginPerUnit", "RevenuePerUnit", "VariableCostPerUnit"}],
    ReinvestmentRate_Identity |->
        [lhs |-> "ReinvestmentRate", den |-> "NOPAT",
         free |-> {"ReinvestmentRate", "Capex", "DeltaWorkingCapital", "RnD", "NOPAT"}],
    NOPAT_Identity |->
        [lhs |-> "NOPAT", den |-> "",
         free |-> {"NOPAT", "OperatingIncome", "TaxRate"}],
    InvestedCapital_Identity |->
        [lhs |-> "InvestedCapital", den |-> "",
         free |-> {"InvestedCapital", "PPE", "NetWorkingCapital", "Goodwill", "AcquiredIntangibles"}],
    ROIC_Identity |->
        [lhs |-> "ROIC", den |-> "InvestedCapital",
         free |-> {"ROIC", "NOPAT", "InvestedCapital"}],
    COGS_Variable_Constraint |->
        [lhs |-> "COGS_variable", den |-> "",
         free |-> {"COGS_variable", "ElasticityRevenue", "Revenue"}],
    SalesCommissions_Constraint |->
        [lhs |-> "SalesCommissions", den |-> "",
         free |-> {"SalesCommissions", "ElasticityNewUnits", "GrossNewCustomers"}],
    PaymentProcessing_Constraint |->
        [lhs |-> "PaymentProcessing", den |-> "",
         free |-> {"PaymentProcessing", "ElasticityRevShare", "Revenue"}] ]

IdentityNames == DOMAIN IDENTITIES

\* the numerator of the right-hand side (the whole right-hand side when
\* there is no quotient), over a mapping v from symbol to value
Numerator(name, v) ==
    CASE name = "CAC_Identity" -> Sub(v["SalesMarketing"], v["RetentionMarketing"])
      [] name = "GrossNewCustomers_Identity" -> Add(v["DeltaCustomers"], v["ChurnedCustomers"])
      [] name = "ChurnedCustomers_Identity" -> Mul(v["Customers_start"], v["ChurnRate"])
      [] name = "ContributionMargin_Identity" -> Sub(v["Revenue"], v["COGS_variable"])
      [] name = "UnitRevenue_Identity" -> v["Revenue"]
      [] name = "VariableCostPerUnit_Identity" -> v["COGS_variable"]
      [] name = "ContributionMargin_Check" -> Sub(v["RevenuePerUnit"], v["VariableCostPerUnit"])
      [] name = "ReinvestmentRate_Identity" ->
            Add(Add(v["Capex"], v["DeltaWorkingCapital"]), v["RnD"])
      [] name = "NOPAT_Identity" -> Mul(v["OperatingIncome"], Sub(Int2Num(1), v["TaxRate"]))
      [] name = "InvestedCapital_Identity" ->
            Add(Add(Add(v["PPE"], v["NetWorkingCapital"]), v["Goodwill"]), v["AcquiredIntangibles"])
      [] name = "ROIC_Identity" -> v["NOPAT"]
      [] name = "COGS_Variable_Constraint" -> Mul(v["ElasticityRevenue"], v["Revenue"])
      [] name = "SalesCommissions_Constraint" -> Mul(v["ElasticityNewUnits"], v["GrossNewCustomers"])
      [] name = "PaymentProcessing_Constraint" -> Mul(v["ElasticityRevShare"], v["Revenue"])

\* variant: the quotient written as a product
RhsProduct(name, v) ==
    IF IDENTITIES[name].den = "" THEN Numerator(name, v)
    ELSE Mul(Numerator(name, v), v[IDENTITIES[name].den])

\* the right-hand side with every symbol replaced by its value
Rhs(name, v) ==
    IF IDENTITIES[name].den = "" THEN Numerator(name, v)
    ELSE Div(Numerator(name, v), v[IDENTITIES[name].den])

\* symbols whose substitution happens, in SymPy's name order, before the
\* denominator's: a zero numerator then folds the quotient to 0 first
NumeratorFirst == {"ContributionMargin_Identity", "UnitRevenue_Identity",
                   "VariableCostPerUnit_Identity"}

\* the right-hand side after equation.subs(subs_dict), under build b
RhsSubs(name, v, b) ==
    LET den == IDENTITIES[name].den
    IN  IF den # "" /\ IsZero(v[den])
        THEN IF b.zeroFold /\ name \in NumeratorFirst /\ IsZero(Numerator(name, v))
             THEN Int2Num(0) ELSE Undef
        ELSE Rhs(name, v)

\* The behaviours of SymPy that differ between builds: whether subs() of a
\* None value raises (SympifyError) or is skipped, and whether 0/0 folds to
\* 0 when the numerator is substituted first.
SolveLibs == [subsNoneRaises : BOOLEAN, zeroFold : BOOLEAN]

Ok(val)   == [ok |-> TRUE, val |-> val, exc |-> ""]
Raise(e)  == [ok |-> FALSE, val |-> Undef, exc |-> e]

evaluate_identity(name, inputs) ==
    IF name \notin IdentityNames THEN Raise("ValueError")
    ELSE IF \E s \in IDENTITIES[name].free : ~IsNum(inputs[s]) THEN Raise("TypeError")
    ELSE LET r == Rhs(name, inputs)
         IN  IF IsNum(r) THEN Ok(Sub(inputs[IDENTITIES[name].lhs], r))
             ELSE Raise("TypeError")

\* variant: the difference compared without abs()
CheckSigned(name, inputs, tolerance) ==
    LET e == evaluate_identity(name, inputs)
    IN  e.ok /\ Less(e.val, tolerance)

check_consistency(name, inputs, tolerance) ==
    LET e == evaluate_identity(name, inputs)
    IN  e.ok /\ Less(AbsNum(e.val), tolerance)

\* solve(equation, target) for a target that is not the left-hand side
Inverse(name, target, v) ==
    CASE name = "CAC_Identity" /\ target = "GrossNewCustomers" ->
            LET n == Sub(v["SalesMarketing"], v["RetentionMarketing"])
            IN  IF IsZero(n) \/ IsZero(v["CAC"]) THEN Undef ELSE Div(n, v["CAC"])

solve_identity(name, knowns, solve_for, b) ==
    IF name \notin IdentityNames THEN Raise("ValueError")
    ELSE LET id == IDENTITIES[name]
             others == id.free \ {solve_for}
         IN  IF solve_for \notin id.free THEN Raise("ValueError")
             ELSE IF b.subsNoneRaises /\ \E s \in id.free : knowns[s].k = "none"
                  THEN Raise("SympifyError")
             ELSE IF IsNum(knowns[solve_for]) THEN Raise("ValueError")
             ELSE IF \E s \in others : ~IsNum(knowns[s]) THEN Raise("ValueError")
             ELSE LET sol == IF solve_for = id.lhs THEN RhsSubs(name, knowns, b)
                             ELSE Inverse(name, solve_for, knowns)
                  IN  IF IsNum(sol) THEN Ok(sol) ELSE Raise("ValueError")

----------------------------------------------------------------------------
(* identity_solver.py *)

solve_unit_identity(identity_name, inputs, solve_for, b) ==
    LET r == solve_identity(identity_name, inputs, solve_for, b)
    IN  IF r.ok THEN r ELSE Raise("IdentityError")

solvers == <<
    [name |-> "CAC_Identity", target |-> "CAC",
     requires |-> {"SalesMarketing", "RetentionMarketing", "GrossNewCustomers"}],
    [name |-> "CAC_Identity", target |-> "GrossNewCustomers",
     requires |-> {"SalesMarketing", "RetentionMarketing", "CAC"}],
    [name |-> "UnitRevenue_Identity", target |-> "RevenuePerUnit",
     requires |-> {"Revenue", "VolumeDriver"}],
    [name |-> "VariableCostPerUnit_Identity", target |-> "VariableCostPerUnit",
     requires |-> {"COGS_variable", "VolumeDriver"}],
    [name |-> "ContributionMargin_Identity", target |-> "ContributionMarginPerUnit",
     requires |-> {"Revenue", "COGS_variable", "VolumeDriver"}],
    [name |-> "ContributionMargin_Check", target |-> "ContributionMarginPerUnit",
     requires |-> {"RevenuePerUnit", "VariableCostPerUnit"}],
    [name |-> "NOPAT_Identity", target |-> "NOPAT",
     requires |-> {"OperatingIncome", "TaxRate"}],
    [name |-> "ROIC_Identity", target |-> "ROIC",
     requires |-> {"NOPAT", "InvestedCapital"}],
    [name |-> "ReinvestmentRate_Identity", target |-> "ReinvestmentRate",
     requires |-> {"Capex", "DeltaWorkingCapital", "RnD", "NOPAT"}] >>

NumRules == Len(solvers)

\* variant: ContributionMargin_Check listed before ContributionMargin_Identity
CheckFirstOrder == <<1, 2, 3, 4, 6, 5, 7, 8, 9>>

\* the order of the rule table as written
SourceOrder == <<1, 2, 3, 4, 5, 6, 7, 8, 9>>

\* variant: a single sweep over the table
ContinuesOnce(flag, n) == flag /\ n = 0

\* "while changed", before pass n + 1
Continues(flag, n) == flag

\* if updated.get(target) is None
TargetUnknown(m, target) == IsNone(m[target])

\* if all(updated.get(req) is not None for req in requires)
RequirementsKnown(m, requires) == \A req \in requires : ~IsNone(m[req])

\* variant: "except ValueError:" in place of the bare clause
SwallowsValueErrorOnly(exc) == exc = "ValueError"

\* the bare "except:" clause around the solve attempt
Swallows(exc) == TRUE

\* whether the rule at position i attempts a solve on mapping m
Attempts(m, i) ==
    /\ TargetUnknown(m, solvers[i].target)
    /\ RequirementsKnown(m, solvers[i].requires)

\* the result of that attempt
Attempt(m, i, b) == solve_unit_identity(solvers[i].name, m, solvers[i].target, b)

\* variant: the flag never set
ChangedNever(r, old) == old

\* variant: the flag set before the solve attempt instead of after it
ChangedBeforeSolve(r, old) == TRUE

\* changed after a solve attempt with result r
ChangedAfter(r, old) == IF r.ok THEN TRUE ELSE old

\* variant: "updated = ue_model", the working copy being the caller's dict
AssignIsAlias == TRUE

\* "updated = ue_model.copy()": whether a write to updated shows in ue_model
CopyIsAlias == FALSE

\* variant: the value stored under the identity's left-hand side
RecordKeyLhs(i) == IDENTITIES[solvers[i].name].lhs

\* the key written by "updated[target] = val"
RecordKey(i) == solvers[i].target

----------------------------------------------------------------------------
(* solve_missing_values, one action per step of its loops *)

AllAbsent == [s \in Symbols |-> Absent]

InVals  == {Absent, NoneV} \cup {Int2Num(i) : i \in 0..MaxVal}
OutVals == {Absent, NoneV, Int2Num(1)}
Half    == Num(1, 2)

\* a mapping with the given entries and no other key
With(base, kv) == [s \in Symbols |-> IF s \in DOMAIN kv THEN kv[s] ELSE base[s]]

\* the inputs compute_unit_economics typically assembles for the other groups
TypicalCac  == [SalesMarketing |-> Int2Num(2), RetentionMarketing |-> Int2Num(1),
                GrossNewCustomers |-> Int2Num(1)]
TypicalUnit == [Revenue |-> Int2Num(2), COGS_variable |-> Int2Num(1), VolumeDriver |-> Int2Num(2)]
TypicalRoic == [OperatingIncome |-> Int2Num(2), TaxRate |-> Half, InvestedCapital |-> Int2Num(2),
                Capex |-> Int2Num(1), DeltaWorkingCapital |-> Int2Num(0), RnD |-> Int2Num(0)]

UnitModels ==
    { With(With(AllAbsent, TypicalRoic),
                 [Revenue |-> r, COGS_variable |-> c, VolumeDriver |-> v,
                  RevenuePerUnit |-> a, VariableCostPerUnit |-> b,
                  ContributionMarginPerUnit |-> m]) :
        r \in InVals, c \in InVals, v \in InVals,
        a \in {Absent, Int2Num(1)}, b \in {Absent, Int2Num(1)}, m \in OutVals }

CacModels ==
    { With(With(With(AllAbsent, TypicalUnit), TypicalRoic),
           [SalesMarketing |-> s, RetentionMarketing |-> r,
            GrossNewCustomers |-> g, CAC |-> c]) :
        s \in InVals, r \in InVals, g \in InVals, c \in InVals }

RoicModels ==
    { With(With(AllAbsent, TypicalCac),
           [OperatingIncome |-> o, TaxRate |-> t, NOPAT |-> n, InvestedCapital |-> i,
            ROIC |-> q, Capex |-> x, DeltaWorkingCapital |-> Int2Num(0),
            RnD |-> Int2Num(0), ReinvestmentRate |-> rr]) :
        o \in {Absent, Int2Num(0), Int2Num(MaxVal)}, t \in {NoneV, Int2Num(0), Half},
        n \in {Absent, NoneV, Int2Num(0), Int2Num(MaxVal)},
        i \in {Absent, Int2Num(0), Int2Num(MaxVal)}, q \in {Absent, Int2Num(1)},
        x \in {Absent, Int2Num(1)}, rr \in OutVals }

InputModels == UnitModels \cup CacModels \cup RoicModels

IdleSolve ==
    /\ lib = [subsNoneRaises |-> FALSE, zeroFold |-> FALSE]
    /\ ue_model = AllAbsent
    /\ updated = AllAbsent
    /\ changed = FALSE
    /\ passes = 0
    /\ idx = 0
    /\ fired = [i \in 1..NumRules |-> 0]
    /\ table = SourceOrder
    /\ pc = "idle"

IdleCheck ==
    /\ ck_name = ""
    /\ ck_inputs = AllAbsent
    /\ ck_tol = Int2Num(0)
    /\ ck_result = "pending"
    /\ violations = <<>>

IdleChain ==
    /\ stack = <<>>
    /\ entries = 0
    /\ overflows = 0
    /\ outcome = "idle"
    /\ periods = 0

IdleResolve ==
    /\ concept = <<>>
    /\ backend = "missing"
    /\ resolved = <<>>
    /\ rdone = FALSE

IdleSeries ==
    /\ all_facts = <<>>
    /\ sconcept = <<>>
    /\ fallback = <<>>
    /\ series = <<>>
    /\ sdone = FALSE

\* before the call
Pending == [done |-> FALSE, ok |-> FALSE, val |-> <<>>, exc |-> ""]

\* after the call, with result r
Done(r) == [done |-> TRUE, ok |-> r.ok, val |-> IF r.ok THEN r.val ELSE <<>>, exc |-> r.exc]

IdleCalls ==
    /\ call_args = <<>>
    /\ call_ret = Pending

NumThreads == 2
Threads == 1..NumThreads

NoCall == [pc |-> "idle", text |-> "", model |-> 0, vec |-> <<>>, calls |-> 0]

IdleEmbed ==
    /\ installed = FALSE
    /\ _model = 0
    /\ loads = 0
    /\ cache = <<>>
    /\ th = [t \in Threads |-> NoCall]
    /\ returned = {}

IdleIndex ==
    /\ contexts = <<>>
    /\ facts = <<>>
    /\ q_tag = ""
    /\ q_period = ""
    /\ gf_result = [status |-> "pending",
                    fact |-> [tag |-> "", contextRef |-> "", numeric_value |-> NoneV]]
    /\ rp_result = [status |-> "pending", ids |-> <<>>]

InitSolve ==
    /\ IdleCheck /\ IdleChain /\ IdleResolve /\ IdleSeries /\ IdleIndex /\ IdleCalls /\ IdleEmbed
    /\ lib \in SolveLibs
    /\ ue_model \in InputModels
    /\ updated = AllAbsent
    /\ changed = FALSE
    /\ passes = 0
    /\ idx = 0
    /\ fired = [i \in 1..NumRules |-> 0]
    /\ table = SourceOrder
    /\ pc = "call"

\* updated = ue_model.copy(); changed = True
SolveEnter ==
    /\ pc = "call"
    /\ updated' = ue_model
    /\ changed' = TRUE
    /\ pc' = "while"
    /\ UNCHANGED <<lib, ue_model, passes, idx, fired, table>>
    /\ UNCHANGED <<checkVars, chainVars, resolveVars, seriesVars, indexVars, callVars, embedVars>>

\* while changed: changed = False
WhileTest ==
    /\ pc = "while"
    /\ passes < MaxPasses
    /\ IF Continues(changed, passes)
       THEN /\ changed' = FALSE
            /\ passes' = passes + 1
            /\ idx' = 1
            /\ pc' = "for"
       ELSE /\ pc' = "done"
            /\ UNCHANGED <<changed, passes, idx>>
    /\ UNCHANGED <<lib, ue_model, updated, fired, table>>
    /\ UNCHANGED <<checkVars, chainVars, resolveVars, seriesVars, indexVars, callVars, embedVars>>

\* one iteration of "for name, target, requires in solvers"
VisitRule ==
    /\ pc = "for"
    /\ idx \in 1..NumRules
    /\ IF Attempts(updated, table[idx])
       THEN LET r == Attempt(updated, table[idx], lib)
            IN  IF r.ok
                THEN /\ updated' = [updated EXCEPT ![RecordKey(table[idx])] = r.val]
                     /\ changed' = ChangedAfter(r, changed)
                     /\ fired' = [fired EXCEPT ![table[idx]] = @ + 1]
                     /\ pc' = IF idx = NumRules THEN "while" ELSE "for"
                ELSE /\ changed' = ChangedAfter(r, changed)
                     /\ pc' = IF ~Swallows(r.exc) THEN "raised"
                              ELSE IF idx = NumRules THEN "while" ELSE "for"
                     /\ UNCHANGED <<updated, fired>>
       ELSE /\ pc' = IF idx = NumRules THEN "while" ELSE "for"
            /\ UNCHANGED <<updated, changed, fired>>
    /\ idx' = idx + 1
    /\ ue_model' = IF CopyIsAlias THEN updated' ELSE ue_model
    /\ UNCHANGED <<lib, passes, table>>
    /\ UNCHANGED <<checkVars, chainVars, resolveVars, seriesVars, indexVars, callVars, embedVars>>

NextSolve == SolveEnter \/ WhileTest \/ VisitRule

SpecSolve == InitSolve /\ [][NextSolve]_vars

----------------------------------------------------------------------------
(* Properties of solve_missing_values *)

Running == pc \in {"while", "for", "done", "raised"}

\* a rule that attempts a solve on m and fails
FailsOn(m, i) == Attempts(m, i) /\ ~Attempt(m, i, lib).ok

\* C2: every variable with a non-null value in the input keeps that value in
\* the working copy and in the result, and no step of the loop changes a
\* variable that already holds a value.
C2_Monotone ==
    /\ [](Running => \A s \in Symbols : ~IsNone(ue_model[s]) => updated[s] = ue_model[s])
    /\ [][\A s \in Symbols : (Running /\ ~IsNone(updated[s])) => updated'[s] = updated[s]]_vars

C2_Witness ==
    /\ pc = "done"
    /\ fired[2] = 1
    /\ ~IsNone(ue_model["CAC"])
    /\ updated["GrossNewCustomers"] # ue_model["GrossNewCustomers"]

\* C3: the loop ends: no rule records a value twice and at most
\* NumRules + 1 passes are started, also when solve attempts fail.
C3_Terminates ==
    /\ passes <= NumRules + 1
    /\ \A i \in 1..NumRules : fired[i] <= 1

C3_Witness ==
    /\ pc = "done"
    /\ passes = 2
    /\ \E i \in 1..NumRules : FailsOn(updated, i)
    /\ \E i \in 1..NumRules : fired[i] = 1

\* C9: with numeric Revenue and COGS_variable, a non-zero VolumeDriver and
\* no entry for the three per-unit variables, the result holds the three
\* quotients, and the per-unit margin is per-unit revenue minus per-unit cost.
C9_Pre ==
    /\ IsNum(ue_model["Revenue"])
    /\ IsNum(ue_model["COGS_variable"])
    /\ IsNum(ue_model["VolumeDriver"])
    /\ ~IsZero(ue_model["VolumeDriver"])
    /\ ue_model["RevenuePerUnit"] = Absent
    /\ ue_model["VariableCostPerUnit"] = Absent
    /\ ue_model["ContributionMarginPerUnit"] = Absent

C10_FailureLocal ==
    /\ [](pc # "raised")
    /\ [](pc = "done" => \A i \in 1..NumRules : Attempts(updated, i) => FailsOn(updated, i))
    /\ [][(pc = "for" /\ FailsOn(updated, table[idx])) => updated' = updated]_vars

\* C25: when solve_missing_values returns, no rule has an unknown target
\* and known requirements, except rules whose solve attempt fails on the
\* returned values; this for the table in any order.
C25_Fixpoint ==
    pc = "done" =>
        \A i \in 1..NumRules :
            (TargetUnknown(updated, solvers[i].target)
                /\ RequirementsKnown(updated, solvers[i].requires))
            => ~solve_unit_identity(solvers[i].name, updated, solvers[i].target, lib).ok

C25_Witness ==
    /\ pc = "done"
    /\ table = <<9, 8, 7, 6, 5, 4, 3, 2, 1>>
    /\ passes = 3
    /\ fired[8] = 1
    /\ TargetUnknown(updated, "RevenuePerUnit")
    /\ RequirementsKnown(updated, {"Revenue", "VolumeDriver"})

\* C30: no step of solve_missing_values changes the mapping passed to it,
\* and when it returns every derived value is in the returned mapping only:
\* the caller's mapping still has no value for it.
C30_InputUntouched ==
    /\ [][pc # "idle" => ue_model' = ue_model]_vars
    /\ [](pc = "done" =>
            \A i \in 1..NumRules :
                fired[i] > 0 => /\ IsNone(ue_model[solvers[i].target])
                                /\ ~IsNone(updated[solvers[i].target]))

C30_Witness ==
    /\ pc = "done"
    /\ ue_model["NOPAT"] = Absent
    /\ IsNum(updated["NOPAT"])
    /\ IsNum(updated["ROIC"])

C10_Witness ==
    /\ pc = "done"
    /\ IsZero(ue_model["VolumeDriver"])
    /\ FailsOn(updated, 3)
    /\ IsNone(updated["RevenuePerUnit"])
    /\ fired[7] = 1

----------------------------------------------------------------------------
(* solve_missing_values with the rule table in another order *)

\* the for loop from position k on, as a function of the state it starts in
RECURSIVE ForLoop(_, _, _, _)
ForLoop(st, b, tbl, k) ==
    IF k > Len(tbl) THEN st
    ELSE LET r == Attempt(st.updated, tbl[k], b)
         IN  ForLoop(IF Attempts(st.updated, tbl[k]) /\ r.ok
                     THEN [updated |-> [st.updated EXCEPT ![RecordKey(tbl[k])] = r.val],
                           changed |-> ChangedAfter(r, st.changed)]
                     ELSE st, b, tbl, k + 1)

\* the while loop from pass n + 1 on
RECURSIVE WhileLoop(_, _, _, _)
WhileLoop(st, b, tbl, n) ==
    IF n < MaxPasses /\ Continues(st.changed, n)
    THEN WhileLoop(ForLoop([st EXCEPT !.changed = FALSE], b, tbl, 1), b, tbl, n + 1)
    ELSE st.updated

\* the mapping returned for table order tbl
solve_missing_values(m, b, tbl) == WhileLoop([updated |-> m, changed |-> TRUE], b, tbl, 0)

\* the orders of the rules of one group, the other groups in place
Orders(before, group, after) ==
    { before \o p \o after :
        p \in { q \in [1..Len(group) -> {group[i] : i \in 1..Len(group)}] :
                    \A i, j \in 1..Len(group) : q[i] = q[j] => i = j } }

Tables ==
    Orders(<<1, 2>>, <<3, 4, 5, 6>>, <<7, 8, 9>>)
        \cup Orders(<<1, 2, 3, 4, 5, 6>>, <<7, 8, 9>>, <<>>)
        \cup Orders(<<>>, <<1, 2>>, <<3, 4, 5, 6, 7, 8, 9>>)
        \cup { <<9, 8, 7, 6, 5, 4, 3, 2, 1>>, <<7, 5, 1, 8, 3, 9, 6, 2, 4>> }

OrderModels ==
    { With(AllAbsent, [Revenue |-> r, COGS_variable |-> c, VolumeDriver |-> v,
                       RevenuePerUnit |-> a, VariableCostPerUnit |-> b,
                       ContributionMarginPerUnit |-> m,
                       OperatingIncome |-> o, TaxRate |-> Half, NOPAT |-> n,
                       InvestedCapital |-> Int2Num(2), Capex |-> Int2Num(1),
                       DeltaWorkingCapital |-> Int2Num(0), RnD |-> Int2Num(0)]) :
        r \in {Absent, Int2Num(MaxVal)}, c \in {Absent, Int2Num(1)}, v \in InVals,
        a \in {Absent, Int2Num(1), Int2Num(2)}, b \in {Absent, Int2Num(1)},
        m \in {Absent, NoneV}, o \in {Absent, Int2Num(2)}, n \in {Absent} }

InitOrder ==
    /\ IdleCheck /\ IdleChain /\ IdleResolve /\ IdleSeries /\ IdleIndex /\ IdleCalls /\ IdleEmbed
    /\ lib \in SolveLibs
    /\ ue_model \in OrderModels
    /\ updated = AllAbsent
    /\ changed = FALSE
    /\ passes = 0
    /\ idx = 0
    /\ fired = [i \in 1..NumRules |-> 0]
    /\ table \in Tables
    /\ pc = "call"

SpecOrder == InitOrder /\ [][NextSolve]_vars

\* the two rules for ContributionMarginPerUnit can both be solved on the
\* way to the result for m, and give different values
MarginRulesDisagree(m, b) ==
    LET ref  == solve_missing_values(m, b, SourceOrder)
        back == [ref EXCEPT !["ContributionMarginPerUnit"] = m["ContributionMarginPerUnit"]]
    IN  /\ Attempts(m, 5) /\ Attempt(m, 5, b).ok
        /\ Attempts(back, 6) /\ Attempt(back, 6, b).ok
        /\ Attempt(m, 5, b).val # Attempt(back, 6, b).val

C14_FirstRuleWins ==
    (pc = "done" /\ IsNone(ue_model["ContributionMarginPerUnit"])) =>
        LET first == Attempts(ue_model, 5) /\ Attempt(ue_model, 5, lib).ok
        IN  /\ first =>
                  /\ fired[5] = 1 /\ fired[6] = 0
                  /\ updated["ContributionMarginPerUnit"] = Attempt(ue_model, 5, lib).val
                  /\ ~IsZero(ue_model["VolumeDriver"]) =>
                        updated["ContributionMarginPerUnit"] =
                            Div(Sub(ue_model["Revenue"], ue_model["COGS_variable"]),
                                ue_model["VolumeDriver"])
            /\ ~first => fired[5] = 0
            /\ fired[6] = 1 =>
                  updated["ContributionMarginPerUnit"] =
                      Sub(updated["RevenuePerUnit"], updated["VariableCostPerUnit"])

C14_Witness ==
    /\ pc = "done"
    /\ fired[5] = 1
    /\ IsNum(updated["RevenuePerUnit"]) /\ IsNum(updated["VariableCostPerUnit"])
    /\ updated["ContributionMarginPerUnit"] #
           Sub(updated["RevenuePerUnit"], updated["VariableCostPerUnit"])

----------------------------------------------------------------------------
(* check_consistency on a fully known identity *)

CheckVals == {Int2Num(i) : i \in 0..MaxVal} \cup {Half}
Tols == {Int2Num(0), Num(1, 1000), Num(1, 100), Int2Num(1)}

\* the mappings that give every symbol of the identity a number
FullInputs(name) ==
    LET free == IDENTITIES[name].free
    IN  { [s \in Symbols |-> IF s \in free THEN f[s] ELSE Absent] : f \in [free -> CheckVals] }

\* test_cac_identity, with CAC as given
CacTest(cac) ==
    With(AllAbsent, [SalesMarketing |-> Int2Num(1000), RetentionMarketing |-> Int2Num(200),
                     GrossNewCustomers |-> Int2Num(80), CAC |-> Int2Num(cac)])

InitCheck ==
    /\ IdleSolve /\ IdleCheck /\ IdleChain /\ IdleResolve /\ IdleSeries /\ IdleIndex /\ IdleCalls /\ IdleEmbed

CheckCall ==
    /\ ck_result = "pending"
    /\ \E name \in IdentityNames, tol \in Tols :
         \E inputs \in FullInputs(name) \cup {CacTest(10), CacTest(11)} :
            /\ \A s \in IDENTITIES[name].free : IsNum(inputs[s])
            /\ ck_name' = name
            /\ ck_inputs' = inputs
            /\ ck_tol' = tol
            /\ ck_result' = IF check_consistency(name, inputs, tol) THEN "True" ELSE "False"
    /\ UNCHANGED violations
    /\ UNCHANGED <<solveVars, chainVars, resolveVars, seriesVars, indexVars, callVars, embedVars>>

NextCheck == CheckCall

SpecCheck == InitCheck /\ [][NextCheck]_vars

\* C8: with every variable of the identity given, check_consistency is True
\* exactly when the right-hand side has a value and |lhs - rhs| < tol.
C8_Consistency ==
    ck_result # "pending" =>
        LET lhs == ck_inputs[IDENTITIES[ck_name].lhs]
            rhs == Rhs(ck_name, ck_inputs)
        IN  (ck_result = "True") <=> (IsNum(rhs) /\ Less(AbsNum(Sub(lhs, rhs)), ck_tol))

C8_Witness ==
    /\ ck_result = "True"
    /\ ck_name = "CAC_Identity"
    /\ ck_inputs = CacTest(10)
    /\ ck_tol = Num(1, 1000)

----------------------------------------------------------------------------
(* compute_unit_economics -> compute_all -> estimate_elasticities ->         *)
(* Atlas.unit_economics -> compute_unit_economics, on the interpreter stack *)

Frame(fn, at) == [fn |-> fn, at |-> at, i |-> 0]

Top == stack[Len(stack)]

SetTop(st, at) == [st EXCEPT ![Len(st)] = [@ EXCEPT !.at = at]]

\* the frame below the callee resumes after the call it was waiting on
ResumeAt(fr) ==
    CASE fr.fn = "compute_unit_economics" -> "tail"
      [] fr.fn = "compute_all" -> "rest"
      [] fr.fn = "estimate_elasticities" -> "after"
      [] fr.fn = "unit_economics" -> "ret"

\* return from the innermost frame
Return(st) ==
    IF Len(st) = 1 THEN <<>>
    ELSE LET below == SubSeq(st, 1, Len(st) - 1)
         IN  SetTop(below, ResumeAt(below[Len(below)]))

\* frames of estimate_elasticities that wait inside "try:" for unit_economics
Guarded(st) == { k \in 1..Len(st) : st[k].fn = "estimate_elasticities" /\ st[k].at = "wait" }

Max(S) == CHOOSE x \in S : \A y \in S : y <= x

\* RecursionError raised in the innermost frame: unwind to the nearest
\* "except:" of estimate_elasticities, or out of the top-level call
Unwind(st) ==
    IF Guarded(st) = {} THEN <<>>
    ELSE SetTop(SubSeq(st, 1, Max(Guarded(st))), "after")

\* whether the innermost frame can run its helpers and make one more call
HasRoom(st) == Len(st) + HelperDepth <= RecursionLimit

InitChain ==
    /\ IdleSolve /\ IdleCheck /\ IdleChain /\ IdleResolve /\ IdleSeries /\ IdleIndex /\ IdleCalls /\ IdleEmbed

\* compute_unit_economics(atlas) or CostStructureEngine.compute_all()
Invoke ==
    /\ outcome = "idle"
    /\ \E entry \in {"compute_unit_economics", "compute_all"}, n \in 0..MaxPeriods :
         /\ stack' = <<Frame(entry, "body")>>
         /\ entries' = IF entry = "compute_unit_economics" THEN 1 ELSE 0
         /\ periods' = n
    /\ outcome' = "running"
    /\ UNCHANGED overflows
    /\ UNCHANGED <<solveVars, checkVars, resolveVars, seriesVars, indexVars, callVars, embedVars>>

\* the step of the innermost frame that calls callee, or overflows
CallStep(fn, callee) ==
    /\ Top.fn = fn
    /\ Top.at = "body"
    /\ IF HasRoom(stack)
       THEN /\ stack' = Append(SetTop(stack, "wait"), Frame(callee, "body"))
            /\ entries' = IF callee = "compute_unit_economics" THEN entries + 1 ELSE entries
            /\ UNCHANGED <<overflows, outcome>>
       ELSE /\ stack' = Unwind(stack)
            /\ overflows' = overflows + 1
            /\ outcome' = IF Unwind(stack) = <<>> THEN "raised" ELSE outcome
            /\ UNCHANGED entries
    /\ UNCHANGED periods
    /\ UNCHANGED <<solveVars, checkVars, resolveVars, seriesVars, indexVars, callVars, embedVars>>

\* unit_economics.py 13-160: assemble inputs, solve, cs = compute_all()
CueBody ==
    /\ outcome = "running"
    /\ stack # <<>>
    /\ CallStep("compute_unit_economics", "compute_all")

\* cost_structure.py 286-290: buckets, then estimate_elasticities(buckets)
AllBody ==
    /\ outcome = "running"
    /\ stack # <<>>
    /\ CallStep("compute_all", "estimate_elasticities")

\* cost_structure.py 112-113: try: ue = self.atlas.unit_economics()
EeTry ==
    /\ outcome = "running"
    /\ stack # <<>>
    /\ CallStep("estimate_elasticities", "unit_economics")

\* atlas.py 227-228: return compute_unit_economics(self)
UeBody ==
    /\ outcome = "running"
    /\ stack # <<>>
    /\ CallStep("unit_economics", "compute_unit_economics")

\* the step of the innermost frame after its call came back: one unit of
\* work per period, then return; the work overflows when there is no room
FinishStep(fn, at) ==
    /\ Top.fn = fn
    /\ Top.at = at
    /\ IF ~HasRoom(stack)
       THEN /\ stack' = Unwind(stack)
            /\ overflows' = overflows + 1
            /\ outcome' = IF Unwind(stack) = <<>> THEN "raised" ELSE outcome
       ELSE IF Top.i < periods
       THEN /\ stack' = [stack EXCEPT ![Len(stack)] = [@ EXCEPT !.i = @ + 1]]
            /\ UNCHANGED <<overflows, outcome>>
       ELSE /\ stack' = Return(stack)
            /\ outcome' = IF Len(stack) = 1 THEN "returned" ELSE outcome
            /\ UNCHANGED overflows
    /\ UNCHANGED <<entries, periods>>
    /\ UNCHANGED <<solveVars, checkVars, resolveVars, seriesVars, indexVars, callVars, embedVars>>

\* cost_structure.py 118-164: volume series and per-period elasticities
EeAfter ==
    /\ outcome = "running"
    /\ stack # <<>>
    /\ FinishStep("estimate_elasticities", "after")

\* cost_structure.py 292-343: split, marginal cost, margins, smoothing
AllRest ==
    /\ outcome = "running"
    /\ stack # <<>>
    /\ FinishStep("compute_all", "rest")

\* unit_economics.py 162-193: build the result
CueTail ==
    /\ outcome = "running"
    /\ stack # <<>>
    /\ FinishStep("compute_unit_economics", "tail")

\* atlas.py 228: the value is passed up
UeRet ==
    /\ outcome = "running"
    /\ stack # <<>>
    /\ Top.fn = "unit_economics"
    /\ Top.at = "ret"
    /\ stack' = Return(stack)
    /\ UNCHANGED <<entries, overflows, outcome, periods>>
    /\ UNCHANGED <<solveVars, checkVars, resolveVars, seriesVars, indexVars, callVars, embedVars>>

NextChain ==
    \/ Invoke \/ CueBody \/ AllBody \/ EeTry \/ UeBody
    \/ EeAfter \/ AllRest \/ CueTail \/ UeRet

SpecChain == InitChain /\ [][NextChain]_vars

\* C1: one call enters compute_unit_economics a number of times bounded by
\* the rule table and the period count, so the chain never runs the
\* interpreter out of stack.
C1_BoundedChain ==
    /\ overflows = 0
    /\ entries <= NumRules + periods + 1

----------------------------------------------------------------------------
(* xbrl/concept_resolver.py: resolve.  A text is a sequence of atoms: a     *)
(* whitespace character, a namespace prefix, or a word of letters; a word   *)
(* or prefix is spelled as listed ("c"), in lower case ("l") or in upper    *)
(* case ("u").  Two texts are the same string iff they are the same         *)
(* sequence (no two words are adjacent).                                     *)

Sp == [ty |-> "sp", w |-> " ", cs |-> "l"]
Px(w, cs) == [ty |-> "px", w |-> w, cs |-> cs]
Wd(w, cs) == [ty |-> "wd", w |-> w, cs |-> cs]

CANONICAL_CLUSTERS ==
    <<
      [canonical |-> <<Wd("Revenue", "c")>>, aliases |-> <<
          <<Wd("RevenueFromContractWithCustomer", "c")>>,
          <<Wd("SalesRevenueNet", "c")>>,
          <<Wd("OperatingRevenue", "c")>>,
          <<Wd("TotalRevenue", "c")>>,
          <<Wd("Revenues", "c")>>,
          <<Px("us-gaap:", "l"), Wd("RevenueFromContractWithCustomer", "c")>>,
          <<Px("ifrs-full:", "l"), Wd("Revenue", "c")>> >>],
      [canonical |-> <<Wd("CostOfRevenue", "c")>>, aliases |-> <<
          <<Wd("CostOfRevenue", "c")>>,
          <<Wd("CostOfGoodsSold", "c")>>,
          <<Wd("CostOfGoodsAndServicesSold", "c")>>,
          <<Wd("CostOfProductsSold", "c")>>,
          <<Wd("COGS", "c")>>,
          <<Px("us-gaap:", "l"), Wd("CostOfRevenue", "c")>>,
          <<Px("us-gaap:", "l"), Wd("CostOfGoodsSold", "c")>> >>],
      [canonical |-> <<Wd("OperatingIncome", "c")>>, aliases |-> <<
          <<Wd("OperatingIncome", "c")>>,
          <<Wd("OperatingProfit", "c")>>,
          <<Wd("IncomeFromOperations", "c")>>,
          <<Wd("OperatingLoss", "c")>>,
          <<Px("us-gaap:", "l"), Wd("OperatingIncomeLoss", "c")>>,
          <<Wd("EBIT", "c")>>,
          <<Wd("EarningsBeforeInterestAndTaxes", "c")>>,
          <<Wd("EarningsBeforeInterestTax", "c")>>,
          <<Wd("EarningsBeforeInterestAndTax", "c")>>,
          <<Wd("OperatingEarnings", "c")>>,
          <<Wd("OperatingEarningsBeforeInterestAndTaxes", "c")>>,
          <<Wd("IncomeBeforeInterestAndTaxes", "c")>>,
          <<Wd("IncomeBeforeInterestTax", "c")>>,
          <<Px("us-gaap:", "l"), Wd("IncomeLossFromContinuingOperationsBeforeIncomeTaxesExtraordinaryItemsNoncontrollingInterest", "c")>>,
          <<Px("us-gaap:", "l"), Wd("IncomeLossFromContinuingOperationsBeforeIncomeTaxes", "c")>> >>],
      [canonical |-> <<Wd("NetIncome", "c")>>, aliases |-> <<
          <<Wd("NetIncome", "c")>>,
          <<Wd("NetIncomeLoss", "c")>>,
          <<Wd("ProfitLoss", "c")>>,
          <<Wd("NetEarnings", "c")>>,
          <<Px("us-gaap:", "l"), Wd("NetIncomeLoss", "c")>>,
          <<Px("ifrs-full:", "l"), Wd("ProfitLoss", "c")>> >>],
      [canonical |-> <<Wd("R&D", "c")>>, aliases |-> <<
          <<Wd("ResearchAndDevelopmentExpense", "c")>>,
          <<Wd("ResearchAndDevelopment", "c")>>,
          <<Wd("RDExpense", "c")>>,
          <<Px("us-gaap:", "l"), Wd("ResearchAndDevelopmentExpense", "c")>> >>],
      [canonical |-> <<Wd("SalesMarketing", "c")>>, aliases |-> <<
          <<Wd("SellingAndMarketingExpense", "c")>>,
          <<Wd("MarketingExpense", "c")>>,
          <<Wd("SalesAndMarketing", "c")>>,
          <<Px("us-gaap:", "l"), Wd("SellingAndMarketingExpense", "c")>> >>],
      [canonical |-> <<Wd("GandA", "c")>>, aliases |-> <<
          <<Wd("SellingGeneralAndAdministrative", "c")>>,
          <<Wd("GeneralAndAdministrative", "c")>>,
          <<Wd("SG&A", "c")>>,
          <<Px("us-gaap:", "l"), Wd("SellingGeneralAndAdministrativeExpense", "c")>> >>],
      [canonical |-> <<Wd("PPE", "c")>>, aliases |-> <<
          <<Wd("PropertyPlantAndEquipmentNet", "c")>>,
          <<Wd("PropertyPlantEquipment", "c")>>,
          <<Wd("FixedAssetsNet", "c")>>,
          <<Px("us-gaap:", "l"), Wd("PropertyPlantAndEquipmentNet", "c")>> >>],
      [canonical |-> <<Wd("Goodwill", "c")>>, aliases |-> <<
          <<Wd("Goodwill", "c")>>,
          <<Px("us-gaap:", "l"), Wd("Goodwill", "c")>>,
          <<Px("ifrs-full:", "l"), Wd("Goodwill", "c")>> >>],
      [canonical |-> <<Wd("Intangibles", "c")>>, aliases |-> <<
          <<Wd("IntangibleAssetsNetExcludingGoodwill", "c")>>,
          <<Wd("IntangibleAssetsNet", "c")>>,
          <<Wd("IntangibleAssets", "c")>>,
          <<Px("us-gaap:", "l"), Wd("IntangibleAssetsNetExcludingGoodwill", "c")>> >>],
      [canonical |-> <<Wd("Cash", "c")>>, aliases |-> <<
          <<Wd("CashAndCashEquivalents", "c")>>,
          <<Wd("CashCashEquivalentsAndShortTermInvestments", "c")>>,
          <<Wd("CashAndShortTermInvestments", "c")>>,
          <<Px("us-gaap:", "l"), Wd("CashAndCashEquivalentsAtCarryingValue", "c")>> >>],
      [canonical |-> <<Wd("SharesOutstanding", "c")>>, aliases |-> <<
          <<Wd("WeightedAverageNumberOfSharesOutstandingBasic", "c")>>,
          <<Wd("WeightedAverageSharesOutstanding", "c")>>,
          <<Wd("CommonStockSharesOutstanding", "c")>> >>]
    >>

\* CANONICAL_LOOKUP.items(): the aliases in insertion order
RECURSIVE Flatten(_, _)
Flatten(clusters, k) ==
    IF k > Len(clusters) THEN <<>>
    ELSE [j \in 1..Len(clusters[k].aliases) |->
            [alias |-> clusters[k].aliases[j], canonical |-> clusters[k].canonical]]
         \o Flatten(clusters, k + 1)

LookupItems == Flatten(CANONICAL_CLUSTERS, 1)

InLookup(t) == \E k \in 1..Len(LookupItems) : LookupItems[k].alias = t

\* a key written twice keeps the value written last
CANONICAL_LOOKUP(t) ==
    LookupItems[Max({ k \in 1..Len(LookupItems) : LookupItems[k].alias = t })].canonical

\* str.strip()
RECURSIVE LStrip(_)
LStrip(t) == IF t # <<>> /\ Head(t).ty = "sp" THEN LStrip(Tail(t)) ELSE t

RECURSIVE RStrip(_)
RStrip(t) ==
    IF t # <<>> /\ t[Len(t)].ty = "sp" THEN RStrip(SubSeq(t, 1, Len(t) - 1)) ELSE t

Strip(t) == RStrip(LStrip(t))

\* PREFIX_RE.sub("", concept): one prefix at the start, in any case
strip_prefix(t) == IF t # <<>> /\ Head(t).ty = "px" THEN Tail(t) ELSE t

\* str.lower()
Lower(t) == [k \in 1..Len(t) |-> IF t[k].ty = "sp" THEN t[k] ELSE [t[k] EXCEPT !.cs = "l"]]

\* str.split(): the maximal runs without whitespace, in order
RECURSIVE Split(_, _)
Split(t, cur) ==
    IF t = <<>> THEN (IF cur = <<>> THEN <<>> ELSE <<cur>>)
    ELSE IF Head(t).ty = "sp"
         THEN (IF cur = <<>> THEN <<>> ELSE <<cur>>) \o Split(Tail(t), <<>>)
         ELSE Split(Tail(t), Append(cur, Head(t)))

Range(f) == { f[k] : k \in DOMAIN f }

\* variant: the overlap divided by the number of distinct words
SimilarityOfSets(a0, b0) ==
    LET a == Lower(a0)
        b == Lower(b0)
        overlap == Cardinality(Range(Split(a, <<>>)) \cap Range(Split(b, <<>>)))
        n == Cardinality(Range(Split(a, <<>>)))
    IN  IF a = b THEN Num(1, 1)
        ELSE Num(overlap, IF n > 1 THEN n ELSE 1)

_simple_similarity(a0, b0) ==
    LET a == Lower(a0)
        b == Lower(b0)
        overlap == Cardinality(Range(Split(a, <<>>)) \cap Range(Split(b, <<>>)))
        n == Len(Split(a, <<>>))
    IN  IF a = b THEN Num(1, 1)
        ELSE Num(overlap, IF n > 1 THEN n ELSE 1)

\* best_score >= 0.5
AcceptsHalf(score) == ~Less(score, Num(5, 10))

\* best_score >= 0.6
Accepts(score) == ~Less(score, Num(6, 10))

NoMatch == [found |-> FALSE, canonical |-> <<>>, score |-> Num(0, 1)]

\* for alias, canonical in CANONICAL_LOOKUP.items(): keep the first maximum
RECURSIVE FuzzyBest(_, _, _)
FuzzyBest(base, k, best) ==
    IF k > Len(LookupItems) THEN best
    ELSE LET sc == _simple_similarity(base, LookupItems[k].alias)
         IN  IF Less(best.score, sc)
             THEN FuzzyBest(base, k + 1,
                     [found |-> TRUE, canonical |-> LookupItems[k].canonical, score |-> sc])
             ELSE FuzzyBest(base, k + 1, best)

\* stage 1 with the raw text never looked up
ExactMatchBaseOnly(raw, base) ==
    IF InLookup(base) THEN [found |-> TRUE, canonical |-> CANONICAL_LOOKUP(base), score |-> Num(1, 1)]
    ELSE NoMatch

\* stage 1: raw in CANONICAL_LOOKUP, then base in CANONICAL_LOOKUP
ExactMatch(raw, base) ==
    IF InLookup(raw) THEN [found |-> TRUE, canonical |-> CANONICAL_LOOKUP(raw), score |-> Num(1, 1)]
    ELSE IF InLookup(base) THEN [found |-> TRUE, canonical |-> CANONICAL_LOOKUP(base), score |-> Num(1, 1)]
    ELSE NoMatch

\* stage 3: without the backend embed() raises and the stage is skipped; with
\* it the best alias is whatever the vectors say, or none reaches 0.55
EmbeddingOutcomes(b) ==
    IF b = "missing" THEN {NoMatch}
    ELSE {NoMatch} \cup { [found |-> TRUE, canonical |-> c, score |-> Num(1, 1)] :
                            c \in { CANONICAL_CLUSTERS[k].canonical : k \in 1..Len(CANONICAL_CLUSTERS) } }

resolve(text, emb) ==
    LET raw == Strip(text)
        base == strip_prefix(raw)
        exact == ExactMatch(raw, base)
        fuzzy == FuzzyBest(base, 1, NoMatch)
    IN  IF exact.found THEN exact.canonical
        ELSE IF Accepts(fuzzy.score) THEN fuzzy.canonical
        ELSE IF emb.found THEN emb.canonical
        ELSE base

AliasWords == { LookupItems[k].alias[Len(LookupItems[k].alias)].w : k \in 1..Len(LookupItems) }

Atoms ==
    {Sp} \cup {Px("us-gaap:", "l"), Px("us-gaap:", "u"), Px("ifrs-full:", "l")}
         \cup { a \in { Wd(w, c) : w \in AliasWords \cup {"Widget"}, c \in {"c", "l", "u"} } :
                    \* COGS, SG&A and EBIT are listed in capitals
                    ~(a.w \in {"COGS", "SG&A", "EBIT"} /\ a.cs = "u") }

NoAdjacentWords(t) == \A k \in 1..(Len(t) - 1) : ~(t[k].ty = "wd" /\ t[k + 1].ty = "wd")

Texts ==
    { t \in UNION { [1..n -> Atoms] : n \in 0..2 } : NoAdjacentWords(t) }
        \cup { t \in [1..MaxTextLen ->
                          {Sp, Px("us-gaap:", "l"), Px("us-gaap:", "u")}
                              \cup { Wd(w, c) : w \in {"Revenues", "Widget"}, c \in {"c", "l"} }] :
                    NoAdjacentWords(t) }
        \cup { <<Wd("Cost", "c"), Sp, Wd("Of", "c"), Sp, Wd("Revenue", "c")>> }

InitResolve ==
    /\ IdleSolve /\ IdleCheck /\ IdleChain /\ IdleSeries /\ IdleIndex /\ IdleCalls /\ IdleEmbed
    /\ concept \in Texts
    /\ backend \in {"missing", "present"}
    /\ resolved = <<>>
    /\ rdone = FALSE

ResolveCall ==
    /\ ~rdone
    /\ \E emb \in EmbeddingOutcomes(backend) : resolved' = resolve(concept, emb)
    /\ rdone' = TRUE
    /\ UNCHANGED <<concept, backend>>
    /\ UNCHANGED <<solveVars, checkVars, chainVars, seriesVars, indexVars, callVars, embedVars>>

NextResolve == ResolveCall

SpecResolve == InitResolve /\ [][NextResolve]_vars

\* C5: every alias listed under a canonical concept, written as listed with
\* or without a namespace prefix, resolves to that concept; so do
\* RevenueFromContractWithCustomer, TotalRevenue and Revenues (to Revenue).
C5_AliasResolves ==
    rdone =>
        /\ \A k \in 1..Len(CANONICAL_CLUSTERS) :
             \A j \in 1..Len(CANONICAL_CLUSTERS[k].aliases) :
                concept = CANONICAL_CLUSTERS[k].aliases[j]
                    => resolved = CANONICAL_CLUSTERS[k].canonical
        /\ concept \in { <<Wd("RevenueFromContractWithCustomer", "c")>>,
                         <<Wd("TotalRevenue", "c")>>, <<Wd("Revenues", "c")>> }
               => resolved = <<Wd("Revenue", "c")>>

C5_Witness ==
    /\ rdone
    /\ concept = <<Px("us-gaap:", "l"), Wd("OperatingIncomeLoss", "c")>>
    /\ resolved = <<Wd("OperatingIncome", "c")>>

Listed(t) ==
    \E k \in 1..Len(CANONICAL_CLUSTERS) :
        \E j \in 1..Len(CANONICAL_CLUSTERS[k].aliases) : CANONICAL_CLUSTERS[k].aliases[j] = t

\* the text is one word that equals a listed alias when case is ignored
AliasIgnoringCase(t) ==
    \E k \in 1..Len(CANONICAL_CLUSTERS) :
        \E j \in 1..Len(CANONICAL_CLUSTERS[k].aliases) :
            Split(Lower(t), <<>>) = <<Lower(CANONICAL_CLUSTERS[k].aliases[j])>>

\* C6 as stated: with the embedding stage disabled, a text that is in no
\* alias list comes back with its namespace prefix removed and otherwise
\* unchanged (surrounding whitespace is not counted as part of the text).
C6_Fallback ==
    LET x == Strip(concept)
    IN  (rdone /\ backend = "missing" /\ ~Listed(concept) /\ ~Listed(x))
            => resolved = (IF x # <<>> /\ x[1].ty = "px" THEN Tail(x) ELSE x)

\* C6 amended: with the embedding stage disabled, a text whose trimmed form
\* and whose trimmed form without its namespace prefix are in no alias list,
\* and whose prefix-free form is not a single word equal to an alias when
\* case is ignored, comes back trimmed of surrounding whitespace with one
\* leading namespace prefix removed.
C6_FallbackAmended ==
    LET trimmed == Strip(concept)
        bare == IF trimmed # <<>> /\ trimmed[1].ty = "px" THEN Tail(trimmed) ELSE trimmed
    IN  (rdone /\ backend = "missing" /\ ~Listed(trimmed) /\ ~Listed(bare) /\ ~AliasIgnoringCase(bare))
            => resolved = bare

C6_Witness ==
    /\ rdone
    /\ backend = "missing"
    /\ concept = <<Px("us-gaap:", "u"), Wd("Widget", "c"), Sp>>
    /\ resolved = <<Wd("Widget", "c")>>

\* the number of whitespace-separated words of a text
WordCount(t) ==
    Cardinality({ k \in 1..Len(t) : t[k].ty # "sp" /\ (k = 1 \/ t[k - 1].ty = "sp") })

\* the first alias, in table order, that the one-word text equals when case
\* is ignored
FirstAliasIgnoringCase(t) ==
    LookupItems[CHOOSE k \in 1..Len(LookupItems) :
        /\ Lower(LookupItems[k].alias) = Lower(t)
        /\ \A j \in 1..(k - 1) : Lower(LookupItems[j].alias) # Lower(t)]

\* C26 as stated: a text whose words are the words of an alias, such as
\* "Cost Of Revenue" for CostOfRevenue, resolves to the concept of that alias.
C26_WordsOfAlias ==
    (rdone /\ concept = <<Wd("Cost", "c"), Sp, Wd("Of", "c"), Sp, Wd("Revenue", "c")>>)
        => resolved = <<Wd("CostOfRevenue", "c")>>

\* C26: stage 2 compares whitespace-separated words, and every alias is one
\* such word. A text that stage 1 does not resolve is resolved by stage 2
\* exactly when it is one word equal to an alias when case is ignored, to the
\* concept of the first such alias; a text of two or more words scores at
\* most one over its number of words, repeated words counted, and passes
\* stage 2 unresolved, so that without the embedding stage it comes back
\* trimmed and without its prefix.
C26_WhitespaceWords ==
    LET raw == Strip(concept)
        base == strip_prefix(raw)
    IN  (rdone /\ ~Listed(raw) /\ ~Listed(base)) =>
            /\ (WordCount(base) = 1 /\ \E k \in 1..Len(LookupItems) :
                                            Lower(LookupItems[k].alias) = Lower(base))
                    => resolved = FirstAliasIgnoringCase(base).canonical
            /\ (WordCount(base) >= 2 /\ backend = "missing") => resolved = base

C26_Witness ==
    /\ rdone
    /\ backend = "missing"
    /\ concept = <<Wd("Cost", "c"), Sp, Wd("Of", "c"), Sp, Wd("Revenue", "c")>>
    /\ resolved = concept

----------------------------------------------------------------------------
(* xbrl/fact_extractor.py: build_concept_series                             *)

NotFloat == [k |-> "text", n |-> 0, d |-> 1]

NoRef == [kind |-> "noref", year |-> 0]
Instant(y) == [kind |-> "instant", year |-> y]
Duration(y) == [kind |-> "duration", year |-> y]

Fact(name, when, value) == [name |-> name, when |-> when, value |-> value]

\* the year of the context's endDate; a fact without contextRef, and a
\* context that has an instant and no endDate, give None
_extract_end_date_year(f) ==
    IF f.when.kind = "duration" THEN [has |-> TRUE, year |-> f.when.year]
    ELSE [has |-> FALSE, year |-> 0]

Revenues == <<Wd("Revenues", "c")>>
TotalRevenue == <<Wd("TotalRevenue", "c")>>
Widget == <<Wd("Widget", "c")>>

FactPool ==
    { Fact(Revenues, Duration(y), Int2Num(v)) : y \in {2021, 2022}, v \in {1, 2} }
        \cup { Fact(TotalRevenue, Duration(2021), Int2Num(2)),
               Fact(TotalRevenue, Duration(2022), Int2Num(1)),
               Fact(Revenues, Duration(2022), NotFloat),
               Fact(Revenues, NoRef, Int2Num(1)),
               Fact(Revenues, Instant(2022), Int2Num(1)),
               Fact(<<>>, Duration(2021), Int2Num(1)) }

\* resolve() of the names that occur, without the embedding backend
Canonical == [t \in {<<>>, Revenues, TotalRevenue, Widget} |-> resolve(t, NoMatch)]

\* (y, f) for the facts at the positions in pass that have a year
RECURSIVE Matches(_, _, _)
Matches(fs, k, pass) ==
    IF k > Len(fs) THEN <<>>
    ELSE (IF k \in pass /\ _extract_end_date_year(fs[k]).has
          THEN <<[year |-> _extract_end_date_year(fs[k]).year, f |-> fs[k]]>>
          ELSE <<>>) \o Matches(fs, k + 1, pass)

\* resolve_to_fact: None, or one of the distinct names of the filing
FallbackNames(fs) == {<<>>} \cup { fs[k].name : k \in 1..Len(fs) }

\* dict assignment: a known year keeps its position and takes the new value
Put(d, y, v) ==
    IF \E k \in 1..Len(d) : d[k].year = y
    THEN [k \in 1..Len(d) |-> IF d[k].year = y THEN [year |-> y, value |-> v] ELSE d[k]]
    ELSE Append(d, [year |-> y, value |-> v])

\* every pair is kept, no key is overwritten
RECURSIVE KeepAll(_, _, _)
KeepAll(ms, k, d) ==
    IF k > Len(ms) THEN d
    ELSE IF IsNum(ms[k].f.value)
         THEN KeepAll(ms, k + 1, Append(d, [year |-> ms[k].year, value |-> ms[k].f.value]))
         ELSE KeepAll(ms, k + 1, d)

\* dedup[y] = float(f["value"]), skipping the values float() rejects
RECURSIVE Dedup(_, _, _)
Dedup(ms, k, d) ==
    IF k > Len(ms) THEN d
    ELSE IF IsNum(ms[k].f.value)
         THEN Dedup(ms, k + 1, Put(d, ms[k].year, ms[k].f.value))
         ELSE Dedup(ms, k + 1, d)

\* sorted(..., key=year): stable insertion into an ascending sequence
RECURSIVE SortedByYear(_)
SortedByYear(d) ==
    IF d = <<>> THEN <<>>
    ELSE LET rest == SortedByYear(SubSeq(d, 1, Len(d) - 1))
             x == d[Len(d)]
             n == Cardinality({ k \in 1..Len(rest) : rest[k].year <= x.year })
         IN  SubSeq(rest, 1, n) \o <<x>> \o SubSeq(rest, n + 1, Len(rest))

build_concept_series(c, fs, fb) ==
    LET canonical == Canonical[c]
        stage1 == { k \in 1..Len(fs) : fs[k].name # <<>> /\ Canonical[fs[k].name] = canonical }
        stage2 == { k \in 1..Len(fs) : fs[k].name = fb }
        first == Matches(fs, 1, stage1)
        raw_matches == IF first # <<>> THEN first
                       ELSE IF fb # <<>> THEN Matches(fs, 1, stage2)
                       ELSE first
    IN  SortedByYear(Dedup(raw_matches, 1, <<>>))

InitSeries ==
    /\ IdleSolve /\ IdleCheck /\ IdleChain /\ IdleResolve /\ IdleIndex /\ IdleCalls /\ IdleEmbed
    /\ all_facts \in UNION { [1..n -> FactPool] : n \in 0..MaxFacts }
    /\ sconcept \in {Revenues, Widget}
    /\ fallback = <<>>
    /\ series = <<>>
    /\ sdone = FALSE

BuildSeries ==
    /\ ~sdone
    /\ \E fb \in FallbackNames(all_facts) :
         /\ fallback' = fb
         /\ series' = build_concept_series(sconcept, all_facts, fb)
    /\ sdone' = TRUE
    /\ UNCHANGED <<all_facts, sconcept>>
    /\ UNCHANGED <<solveVars, checkVars, chainVars, resolveVars, indexVars, callVars, embedVars>>

NextSeries == BuildSeries

SpecSeries == InitSeries /\ [][NextSeries]_vars

\* C7: whatever the facts and their order, the series has strictly
\* increasing years, so no year appears twice.
C7_StrictlyIncreasing ==
    sdone => \A i, j \in 1..Len(series) : i < j => series[i].year < series[j].year

C7_Witness ==
    /\ sdone
    /\ Len(all_facts) = 3
    /\ all_facts[1] = Fact(Revenues, Duration(2022), Int2Num(1))
    /\ all_facts[2] = Fact(TotalRevenue, Duration(2021), Int2Num(2))
    /\ all_facts[3] = Fact(Revenues, Duration(2022), Int2Num(2))
    /\ series = <<[year |-> 2021, value |-> Int2Num(2)], [year |-> 2022, value |-> Int2Num(2)]>>

\* C22: every fact resolved to the concept whose value is a number gives the
\* series a point at the year of its context, the period end of a duration
\* and the date of an instant alike.
C22_InstantYear ==
    sdone => \A k \in 1..Len(all_facts) :
        (/\ all_facts[k].name # <<>>
         /\ Canonical[all_facts[k].name] = Canonical[sconcept]
         /\ all_facts[k].when.kind \in {"duration", "instant"}
         /\ IsNum(all_facts[k].value))
        => \E i \in 1..Len(series) : series[i].year = all_facts[k].when.year

----------------------------------------------------------------------------
(* xbrl/fact_index.py: FactIndex.resolve_period and FactIndex.get_fact      *)

NoDate == [y |-> 0, m |-> 0, d |-> 0]
Date(y, m, d) == [y |-> y, m |-> m, d |-> d]

\* days before the first of each month of a common year
DaysBefore == <<0, 31, 59, 90, 120, 151, 181, 212, 243, 273, 304, 334>>

\* datetime order and differences, for dates from 2021 on without leap days;
\* datetime.min is below every one of them
Ordinal(date) == IF date = NoDate THEN 0 ELSE (date.y - 2021) * 365 + DaysBefore[date.m] + date.d

Context(ty, start, end, instant) ==
    [period_type |-> ty, period_start |-> start, period_end |-> end, period_instant |-> instant]

NoContext == Context("", NoDate, NoDate, NoDate)

_context_end_date(ctx) ==
    IF ctx.period_type = "instant" THEN ctx.period_instant
    ELSE IF ctx.period_end # NoDate THEN ctx.period_end
    ELSE ctx.period_instant

_context_sort_date(ctx) ==
    IF _context_end_date(ctx) # NoDate THEN _context_end_date(ctx) ELSE ctx.period_start

\* (end - start).days, or None (-1) when either date is missing
_context_duration_days(ctx) ==
    IF ctx.period_start # NoDate /\ ctx.period_end # NoDate
    THEN Ordinal(ctx.period_end) - Ordinal(ctx.period_start)
    ELSE -1

\* sorted(): position p holds the item with p - 1 items before it, where an
\* item is before another if it is smaller, or not larger and earlier;
\* smaller holds the pairs <<j, i>> of positions with items[j] < items[i]
StableSort(items, smaller) ==
    LET Before(j, i) == <<j, i>> \in smaller \/ (<<i, j>> \notin smaller /\ j < i)
        Pos(i) == 1 + Cardinality({ j \in 1..Len(items) : j # i /\ Before(j, i) })
    IN  [p \in 1..Len(items) |-> items[CHOOSE i \in 1..Len(items) : Pos(i) = p]]

ContextOf(cs, cid) ==
    IF \E k \in 1..Len(cs) : cs[k].cid = cid
    THEN cs[CHOOSE k \in 1..Len(cs) : cs[k].cid = cid].ctx
    ELSE NoContext

HasContext(cs, cid) == \E k \in 1..Len(cs) : cs[k].cid = cid

\* variant: sorted() without reverse=True
SortOldestFirst(ids, cs) ==
    LET Older(a, b) == Ordinal(_context_sort_date(ContextOf(cs, a)))
                          < Ordinal(_context_sort_date(ContextOf(cs, b)))
    IN  StableSort(ids, { p \in (1..Len(ids)) \X (1..Len(ids)) : Older(ids[p[1]], ids[p[2]]) })

\* newest first; contexts without a date count as datetime.min
_sort_context_ids(ids, cs) ==
    LET Newer(a, b) == Ordinal(_context_sort_date(ContextOf(cs, a)))
                          > Ordinal(_context_sort_date(ContextOf(cs, b)))
    IN  StableSort(ids, { p \in (1..Len(ids)) \X (1..Len(ids)) : Newer(ids[p[1]], ids[p[2]]) })

\* str.upper() of the period aliases that occur
Upper(alias) ==
    CASE alias = "latest" -> "LATEST"
      [] alias = "mrq" -> "MRQ"
      [] alias = "fy2022" -> "FY2022"
      [] alias = "c_fy22" -> "C_FY22"
      [] alias = "bogus" -> "BOGUS"
      [] OTHER -> alias

\* int(alias_upper[2:]) for the aliases that start with FY
FiscalYear(upper) ==
    CASE upper = "FY2022" -> 2022
      [] upper = "FY2024" -> 2024
      [] OTHER -> 0

\* alias.upper().startswith("FY")
StartsWithFY(upper) == upper \in {"FY2022", "FY2024"}

\* quarter_months
QuarterMonth(upper) ==
    CASE upper = "Q1" -> 3
      [] upper = "Q2" -> 6
      [] upper = "Q3" -> 9
      [] upper = "Q4" -> 12
      [] OTHER -> 0

_preferred_period_type(alias) ==
    IF alias = "" THEN ""
    ELSE IF StartsWithFY(Upper(alias)) \/ Upper(alias) \in {"MRQ", "Q1", "Q2", "Q3", "Q4"}
         THEN "duration"
    ELSE ""

\* the subsequence of the context ids whose context passes
RECURSIVE ContextIds(_, _, _)
ContextIds(cs, k, pass) ==
    IF k > Len(cs) THEN <<>>
    ELSE (IF k \in pass THEN <<cs[k].cid>> ELSE <<>>) \o ContextIds(cs, k + 1, pass)

\* str comparison of the context ids that occur: their ascending order
CidOrder == <<"c_fy22", "c_fy22_seg", "c_h2_22", "c_i23", "c_open", "c_q1_23", "c_q4_22">>

CidLess(a, b) ==
    \E i, j \in 1..Len(CidOrder) : i < j /\ CidOrder[i] = a /\ CidOrder[j] = b

\* durations.sort(reverse=True) on the tuples (date, length, cid) of the
\* contexts named by ids: the greater tuple first
SortDurations(ids, cs) ==
    LET date(a) == Ordinal(_context_sort_date(ContextOf(cs, a)))
        length(a) == _context_duration_days(ContextOf(cs, a))
        Greater(a, b) == \/ date(a) > date(b)
                         \/ date(a) = date(b) /\ length(a) > length(b)
                         \/ date(a) = date(b) /\ length(a) = length(b) /\ CidLess(b, a)
    IN  StableSort(ids, { p \in (1..Len(ids)) \X (1..Len(ids)) : Greater(ids[p[1]], ids[p[2]]) })

\* durations.sort(reverse=True) compares (date, length, cid): two tuples
\* with the same date and one length None and the other a number cannot be
\* ordered
MrqSortFails(cs, durs) ==
    \E i, j \in durs :
        /\ _context_sort_date(cs[i].ctx) = _context_sort_date(cs[j].ctx)
        /\ _context_duration_days(cs[i].ctx) = -1
        /\ _context_duration_days(cs[j].ctx) # -1

resolve_period(cs, alias) ==
    LET upper == Upper(alias)
        all == 1..Len(cs)
        dated == { k \in all : _context_sort_date(cs[k].ctx) # NoDate }
        max_date == Max({ Ordinal(_context_sort_date(cs[k].ctx)) : k \in dated })
        durs == { k \in all : cs[k].ctx.period_type = "duration" /\ _context_sort_date(cs[k].ctx) # NoDate }
        durations == SortDurations(ContextIds(cs, 1, durs), cs)
        QuarterLike(cid) == /\ _context_duration_days(ContextOf(cs, cid)) # -1
                            /\ 70 <= _context_duration_days(ContextOf(cs, cid))
                            /\ _context_duration_days(ContextOf(cs, cid)) <= 120
        quarter_like == SelectSeq(durations, QuarterLike)
        quarter == { k \in all : cs[k].ctx.period_type = "duration" /\ _context_end_date(cs[k].ctx) # NoDate
                                   /\ _context_end_date(cs[k].ctx).m = QuarterMonth(upper) }
        fy == { k \in all : cs[k].ctx.period_type = "duration" /\ _context_end_date(cs[k].ctx) # NoDate
                              /\ _context_end_date(cs[k].ctx).y = FiscalYear(upper) }
    IN  IF cs = <<>> \/ alias = "" THEN Ok(<<>>)
        ELSE IF HasContext(cs, alias) THEN Ok(<<alias>>)
        ELSE IF upper = "LATEST"
             THEN (IF dated = {} THEN Ok(<<>>)
                   ELSE Ok(ContextIds(cs, 1, { k \in dated :
                              Ordinal(_context_sort_date(cs[k].ctx)) = max_date })))
        ELSE IF upper = "MRQ"
             THEN (IF MrqSortFails(cs, durs) THEN Raise("TypeError")
                   ELSE Ok(_sort_context_ids(
                              IF quarter_like # <<>> THEN quarter_like ELSE durations, cs)))
        ELSE IF QuarterMonth(upper) # 0 THEN Ok(_sort_context_ids(ContextIds(cs, 1, quarter), cs))
        ELSE IF StartsWithFY(upper) /\ FiscalYear(upper) # 0 THEN Ok(_sort_context_ids(ContextIds(cs, 1, fy), cs))
        ELSE Ok(<<>>)


\* str.lower() of the tags that occur
LowerTag(t) ==
    CASE t = "Revenue" -> "revenue"
      [] t = "ASSETS" -> "assets"
      [] t = "Assets" -> "assets"
      [] OTHER -> t

IndexFact(tag, ref, value) == [tag |-> tag, contextRef |-> ref, numeric_value |-> value]

NoFact == IndexFact("", "", NoneV)

get_facts_by_tag(fs, tag) ==
    LET Tagged(f) == LowerTag(f.tag) = LowerTag(tag)
    IN  SelectSeq(fs, Tagged)

\* variant: the date rank without the minus sign
FactSortKeyOldest(fact, cs, preferred) ==
    LET context == ContextOf(cs, fact.contextRef)
        date == _context_sort_date(context)
    IN  [numeric |-> IF IsNum(fact.numeric_value) THEN 0 ELSE 1,
         period |-> IF preferred = "" THEN 0
                    ELSE IF HasContext(cs, fact.contextRef) /\ context.period_type = preferred
                         THEN 0 ELSE 1,
         date |-> IF date = NoDate THEN 1000000 ELSE Ordinal(date)]

\* (0 if has_numeric else 1, period_rank, date_rank); date_rank is minus the
\* timestamp, and +inf (here 1, above every negated date) without a date
_fact_sort_key(fact, cs, preferred) ==
    LET context == ContextOf(cs, fact.contextRef)
        date == _context_sort_date(context)
    IN  [numeric |-> IF IsNum(fact.numeric_value) THEN 0 ELSE 1,
         period |-> IF preferred = "" THEN 0
                    ELSE IF HasContext(cs, fact.contextRef) /\ context.period_type = preferred
                         THEN 0 ELSE 1,
         date |-> IF date = NoDate THEN 1 ELSE -Ordinal(date)]

\* tuple comparison
KeyLess(a, b) ==
    \/ a.numeric < b.numeric
    \/ (a.numeric = b.numeric /\ a.period < b.period)
    \/ (a.numeric = b.numeric /\ a.period = b.period /\ a.date < b.date)

\* "if allowed_contexts:" guards the filter
Filters(allowed) == allowed # <<>>

get_fact(cs, fs, tag, period) ==
    LET candidates == get_facts_by_tag(fs, tag)
        rp == IF period # "" THEN resolve_period(cs, period) ELSE Ok(<<>>)
        Allowed(f) == f.contextRef \in Range(rp.val)
        kept == IF period # "" /\ Filters(rp.val) THEN SelectSeq(candidates, Allowed) ELSE candidates
        preferred == _preferred_period_type(period)
        Ahead(f, g) == KeyLess(_fact_sort_key(f, cs, preferred), _fact_sort_key(g, cs, preferred))
    IN  IF candidates = <<>> THEN [status |-> "none", fact |-> NoFact]
        ELSE IF ~rp.ok THEN [status |-> "raised", fact |-> NoFact]
        ELSE IF kept = <<>> THEN [status |-> "none", fact |-> NoFact]
        ELSE [status |-> "fact", fact |-> StableSort(kept,
                    { p \in (1..Len(kept)) \X (1..Len(kept)) : Ahead(kept[p[1]], kept[p[2]]) })[1]]

ContextPool ==
    { [cid |-> "c_fy22", ctx |-> Context("duration", Date(2022, 1, 1), Date(2022, 12, 31), NoDate)],
      [cid |-> "c_q1_23", ctx |-> Context("duration", Date(2023, 1, 1), Date(2023, 3, 31), NoDate)],
      [cid |-> "c_i23", ctx |-> Context("instant", NoDate, NoDate, Date(2023, 3, 31))],
      [cid |-> "c_open", ctx |-> Context("duration", NoDate, Date(2023, 3, 31), NoDate)] }

IndexFactPool ==
    { IndexFact("Revenue", c, Int2Num(1)) : c \in {"c_fy22", "c_q1_23", "c_i23", "c_open"} }
        \cup { IndexFact("Revenue", "c_q1_23", NoneV), IndexFact("ASSETS", "c_i23", Int2Num(2)) }

InitIndex ==
    /\ IdleSolve /\ IdleCheck /\ IdleChain /\ IdleResolve /\ IdleSeries /\ IdleCalls /\ IdleEmbed
    \* the contexts of a filing are a dict: no id twice
    /\ contexts \in { cs \in UNION { [1..n -> ContextPool] : n \in 0..MaxContexts } :
                        \A i, j \in 1..Len(cs) : i # j => cs[i].cid # cs[j].cid }
    /\ facts \in UNION { [1..n -> IndexFactPool] : n \in 0..MaxIndexFacts }
    /\ q_tag \in {"revenue", "Assets"}
    /\ q_period \in {"", "latest", "mrq", "Q1", "FY2022", "FY2024", "c_fy22", "bogus"}
    /\ gf_result = [status |-> "pending", fact |-> NoFact]
    /\ rp_result = [status |-> "pending", ids |-> <<>>]

GetFact ==
    /\ gf_result.status = "pending"
    /\ gf_result' = get_fact(contexts, facts, q_tag, q_period)
    /\ UNCHANGED <<contexts, facts, q_tag, q_period, rp_result>>
    /\ UNCHANGED <<solveVars, checkVars, chainVars, resolveVars, seriesVars, callVars, embedVars>>

NextIndex == GetFact

SpecIndex == InitIndex /\ [][NextIndex]_vars

\* C4: with a non-empty period alias get_fact returns no fact unless some
\* candidate's context is among resolve_period(period), also when that is
\* empty; a fact it returns has its context in the resolved set.
C4_PeriodRespected ==
    (gf_result.status = "fact" /\ q_period # "")
        => /\ resolve_period(contexts, q_period).ok
           /\ gf_result.fact.contextRef \in Range(resolve_period(contexts, q_period).val)

\* the facts get_fact chooses among: those with the tag, and with a
\* non-empty period resolution those whose context is in it
Remaining ==
    LET candidates == get_facts_by_tag(facts, q_tag)
        allowed == IF q_period = "" THEN <<>> ELSE resolve_period(contexts, q_period).val
    IN  { candidates[k] : k \in { i \in 1..Len(candidates) :
                                     allowed = <<>> \/ candidates[i].contextRef \in Range(allowed) } }

\* g goes before f: it has a numeric value and f has none; or, alike in
\* that, the alias asks for durations and only g's context is one; or, alike
\* in both, g's context has the later end date (no date counts as oldest)
RanksBefore(g, f) ==
    LET Numeric(x) == IsNum(x.numeric_value)
        Wanted(x) == \/ q_period \notin {"mrq", "Q1", "FY2022", "FY2024"}
                     \/ ContextOf(contexts, x.contextRef).period_type = "duration"
        EndDate(x) == Ordinal(_context_end_date(ContextOf(contexts, x.contextRef)))
    IN  \/ Numeric(g) /\ ~Numeric(f)
        \/ Numeric(g) = Numeric(f) /\ Wanted(g) /\ ~Wanted(f)
        \/ Numeric(g) = Numeric(f) /\ Wanted(g) = Wanted(f) /\ EndDate(g) > EndDate(f)

\* C17: the fact get_fact returns is one of the remaining candidates, and
\* no remaining candidate ranks before it: none has a numeric value when it
\* has none, none is a duration fact for a fiscal-year or quarter alias when
\* it is not, none has a later end date otherwise.
C17_BestCandidate ==
    gf_result.status = "fact" =>
        /\ gf_result.fact \in Remaining
        /\ \A g \in Remaining : ~RanksBefore(g, gf_result.fact)

C17_Witness ==
    /\ gf_result.status = "fact"
    /\ q_period = "FY2024"
    /\ Len(facts) = 2
    /\ gf_result.fact = facts[2]
    /\ facts[1] \in Remaining
    /\ IsNum(facts[1].numeric_value)
    /\ ContextOf(contexts, facts[1].contextRef).period_type = "instant"

----------------------------------------------------------------------------
(* identity_solver.py: enforce_all *)

checks == <<
    [name |-> "CAC_Identity",
     required |-> {"CAC", "SalesMarketing", "RetentionMarketing", "GrossNewCustomers"}],
    [name |-> "ContributionMargin_Identity",
     required |-> {"ContributionMarginPerUnit", "Revenue", "COGS_variable", "VolumeDriver"}],
    [name |-> "UnitRevenue_Identity", required |-> {"RevenuePerUnit", "Revenue", "VolumeDriver"}],
    [name |-> "VariableCostPerUnit_Identity",
     required |-> {"VariableCostPerUnit", "COGS_variable", "VolumeDriver"}],
    [name |-> "ContributionMargin_Check",
     required |-> {"ContributionMarginPerUnit", "RevenuePerUnit", "VariableCostPerUnit"}],
    [name |-> "ROIC_Identity", required |-> {"ROIC", "NOPAT", "InvestedCapital"}],
    [name |-> "ReinvestmentRate_Identity",
     required |-> {"ReinvestmentRate", "Capex", "DeltaWorkingCapital", "RnD", "NOPAT"}] >>

\* variant: the table without its last two entries
ChecksUnitOnly == SubSeq(checks, 1, 5)

\* the table the loop of enforce_all runs over
ChecksTable == checks

\* The difference of a broken identity is evaluated a second time, outside
\* any try.  A right-hand side with a zero denominator has no number: the
\* SymPy build either fails to convert it (zeroDiv = "raise") or hands back
\* nan or an infinity (zeroDiv = "nan"), which is formatted like a number.
\* the diff of a broken check, from the second evaluation e
Difference(e, zeroDiv, numeric) ==
    IF ~e.ok /\ zeroDiv = "nan" /\ numeric THEN Ok(Undef) ELSE e

RECURSIVE EnforceLoop(_, _, _, _, _)

\* violations.append(...) with the diff d, or the exception that ends the call
Violation(m, tolerance, zeroDiv, k, acc, d) ==
    IF ~d.ok THEN [status |-> d.exc, violations |-> <<>>]
    ELSE EnforceLoop(m, tolerance, zeroDiv, k + 1,
                     Append(acc, [name |-> ChecksTable[k].name, diff |-> d.val]))

\* the loop over the table from position k on; acc holds the violations so far
EnforceLoop(m, tolerance, zeroDiv, k, acc) ==
    IF k > Len(ChecksTable)
    THEN [status |-> IF acc = <<>> THEN "returned" ELSE "IdentityError", violations |-> acc]
    ELSE IF /\ \A key \in ChecksTable[k].required : ~IsNone(m[key])
            /\ ~check_consistency(ChecksTable[k].name, m, tolerance)
         THEN Violation(m, tolerance, zeroDiv, k, acc,
                        Difference(evaluate_identity(ChecksTable[k].name, m), zeroDiv,
                                   \A key \in ChecksTable[k].required : IsNum(m[key])))
         ELSE EnforceLoop(m, tolerance, zeroDiv, k + 1, acc)

enforce_all(m, tolerance, zeroDiv) == EnforceLoop(m, tolerance, zeroDiv, 1, <<>>)

EnforceModels ==
    { With(AllAbsent,
           [Revenue |-> r, VolumeDriver |-> v, RevenuePerUnit |-> p,
            NOPAT |-> n, OperatingIncome |-> o, TaxRate |-> Int2Num(0),
            InvestedCapital |-> i, ROIC |-> q]) :
        r \in InVals, v \in InVals, p \in InVals,
        n \in {Absent, Int2Num(0), Int2Num(1)}, o \in {Absent, Int2Num(1), Int2Num(2)},
        i \in {Absent, Int2Num(0), Int2Num(1)}, q \in {Absent, Int2Num(1)} }

InitEnforce ==
    /\ IdleSolve /\ IdleChain /\ IdleResolve /\ IdleSeries /\ IdleIndex /\ IdleCalls /\ IdleEmbed
    /\ ck_name = "enforce_all"
    /\ ck_inputs \in EnforceModels
    /\ ck_tol \in {Num(1, 100), Int2Num(1)}
    /\ ck_result = "pending"
    /\ violations = <<>>

EnforceCall ==
    /\ ck_result = "pending"
    /\ \E zeroDiv \in {"raise", "nan"} :
         LET r == enforce_all(ck_inputs, ck_tol, zeroDiv)
         IN  /\ ck_result' = r.status
             /\ violations' = r.violations
    /\ UNCHANGED <<ck_name, ck_inputs, ck_tol>>
    /\ UNCHANGED <<solveVars, chainVars, resolveVars, seriesVars, indexVars, callVars, embedVars>>

NextEnforce == EnforceCall

SpecEnforce == InitEnforce /\ [][NextEnforce]_vars

\* an identity all of whose variables have a value in the mapping
AllPresent(name, m) == \A k \in IDENTITIES[name].free : ~IsNone(m[k])

\* C11: enforce_all returns, or raises IdentityError naming each violated
\* identity with its numeric difference; no model, a zero denominator
\* included, makes it raise anything else.
C11_OnlyIdentityError ==
    /\ ck_result \in {"pending", "returned", "IdentityError"}
    /\ ck_result = "IdentityError" =>
          /\ violations # <<>>
          /\ \A i \in 1..Len(violations) :
                /\ AllPresent(violations[i].name, ck_inputs)
                /\ violations[i].diff = Sub(ck_inputs[IDENTITIES[violations[i].name].lhs],
                                            Rhs(violations[i].name, ck_inputs))

----------------------------------------------------------------------------
(* xbrl/fact_index.py: FactIndex.resolve_period on its own *)

PeriodPool ==
    ContextPool \cup
    { [cid |-> "c_fy22_seg", ctx |-> Context("duration", Date(2022, 1, 1), Date(2022, 12, 31), NoDate)],
      [cid |-> "c_h2_22", ctx |-> Context("duration", Date(2022, 7, 1), Date(2022, 12, 31), NoDate)],
      [cid |-> "c_q4_22", ctx |-> Context("duration", Date(2022, 10, 1), Date(2022, 12, 31), NoDate)] }

InitPeriod ==
    /\ IdleSolve /\ IdleCheck /\ IdleChain /\ IdleResolve /\ IdleSeries /\ IdleCalls /\ IdleEmbed
    /\ contexts \in { cs \in UNION { [1..n -> PeriodPool] : n \in 0..MaxContexts } :
                        \A i, j \in 1..Len(cs) : i # j => cs[i].cid # cs[j].cid }
    /\ facts = <<>>
    /\ q_tag = ""
    /\ q_period \in {"", "latest", "mrq", "Q1", "Q4", "FY2022", "FY2024", "c_fy22", "bogus"}
    /\ gf_result = [status |-> "pending", fact |-> NoFact]
    /\ rp_result = [status |-> "pending", ids |-> <<>>]

ResolvePeriod ==
    /\ rp_result.status = "pending"
    /\ rp_result' = LET r == resolve_period(contexts, q_period)
                    IN  IF r.ok THEN [status |-> "returned", ids |-> r.val]
                        ELSE [status |-> "raised", ids |-> <<>>]
    /\ UNCHANGED <<contexts, facts, q_tag, q_period, gf_result>>
    /\ UNCHANGED <<solveVars, checkVars, chainVars, resolveVars, seriesVars, callVars, embedVars>>

NextPeriod == ResolvePeriod

SpecPeriod == InitPeriod /\ [][NextPeriod]_vars

\* C15: resolve_period never raises, whatever the alias and the context
\* table; an alias that is no context id and no period alias yields the empty
\* list, and an alias that is the id of a context yields exactly that id.
C15_NeverRaises ==
    /\ rp_result.status # "raised"
    /\ (rp_result.status = "returned" /\ q_period = "bogus") => rp_result.ids = <<>>
    /\ (rp_result.status = "returned" /\ HasContext(contexts, q_period)) =>
            rp_result.ids = <<q_period>>

\* the aliases that can resolve to several contexts
MultiResult == q_period \in {"mrq", "Q1", "Q4", "FY2022", "FY2024"}

\* end date and start date of the context with id cid, and its place in the table
EndOf(cid) == Ordinal(ContextOf(contexts, cid).period_end)
StartOf(cid) == Ordinal(ContextOf(contexts, cid).period_start)
PlaceOf(cid) == CHOOSE k \in 1..Len(contexts) : contexts[k].cid = cid

\* the context table in the opposite order
Reversed == [k \in 1..Len(contexts) |-> contexts[Len(contexts) + 1 - k]]

\* C16 as stated: a multi-result resolution is newest-first by end date,
\* contexts with the same end date are ordered by their start date, and the
\* list is the same for the context table in another order.
C16_TiesByStartDate ==
    (rp_result.status = "returned" /\ MultiResult) =>
        LET ids == rp_result.ids
            Pairs == { p \in (1..Len(ids)) \X (1..Len(ids)) : p[1] < p[2] }
            Ties == { p \in Pairs : EndOf(ids[p[1]]) = EndOf(ids[p[2]]) }
        IN  /\ \A p \in Pairs : EndOf(ids[p[1]]) >= EndOf(ids[p[2]])
            /\ \/ \A p \in Ties : StartOf(ids[p[1]]) >= StartOf(ids[p[2]])
               \/ \A p \in Ties : StartOf(ids[p[1]]) <= StartOf(ids[p[2]])
            /\ resolve_period(Reversed, q_period) = Ok(ids)

\* C16: a multi-result resolution is newest-first by end date; contexts
\* with the same end date keep the order of the context table for Q1..Q4 and
\* FYnnnn, and for MRQ the longer duration comes first (for equal durations
\* the greater context id).
C16_TiesByTableOrder ==
    (rp_result.status = "returned" /\ MultiResult) =>
        LET ids == rp_result.ids
            Pairs == { p \in (1..Len(ids)) \X (1..Len(ids)) : p[1] < p[2] }
            Ties == { p \in Pairs : EndOf(ids[p[1]]) = EndOf(ids[p[2]]) }
        IN  /\ \A p \in Pairs : EndOf(ids[p[1]]) >= EndOf(ids[p[2]])
            /\ q_period # "mrq" => \A p \in Ties : PlaceOf(ids[p[1]]) < PlaceOf(ids[p[2]])
            /\ q_period = "mrq" =>
                    \A p \in Ties : \/ StartOf(ids[p[1]]) < StartOf(ids[p[2]])
                                     \/ /\ StartOf(ids[p[1]]) = StartOf(ids[p[2]])
                                        /\ CidLess(ids[p[2]], ids[p[1]])

C16_Witness ==
    /\ rp_result.status = "returned"
    /\ q_period = "FY2022"
    /\ rp_result.ids = <<"c_h2_22", "c_fy22">>

----------------------------------------------------------------------------
(* atlas/atlas.py: _compute_yoy *)

\* variant: only a missing previous value gives None
YoyGuardNoneOnly(v_prev) == IsNone(v_prev)

\* "if v_prev is None or v_prev == 0"
YoyGuard(v_prev) == IsNone(v_prev) \/ IsZero(v_prev)

\* a series is a sequence of [year, value]; the result is the list returned,
\* or the exception of the first entry whose arithmetic fails
_compute_yoy(s) ==
    LET Fails(i) == /\ ~YoyGuard(s[i - 1].value)
                    /\ (~IsNum(s[i].value) \/ IsZero(s[i - 1].value))
        Entry(i) == [year |-> s[i].year,
                     value |-> IF YoyGuard(s[i - 1].value) THEN NoneV
                               ELSE Div(Sub(s[i].value, s[i - 1].value), s[i - 1].value)]
    IN  IF \E i \in 2..Len(s) : Fails(i)
        THEN LET i == CHOOSE k \in 2..Len(s) : Fails(k) /\ \A j \in 2..(k - 1) : ~Fails(j)
             IN  Raise(IF ~IsNum(s[i].value) THEN "TypeError" ELSE "ZeroDivisionError")
        ELSE Ok([k \in 1..(IF Len(s) = 0 THEN 0 ELSE Len(s) - 1) |-> Entry(k + 1)])

YoyVals == {NoneV, Int2Num(0), Int2Num(90), Int2Num(100), Int2Num(120)}

\* series of consecutive years from 2021 on
YoySeries ==
    UNION { { [i \in 1..n |-> [year |-> 2020 + i, value |-> vs[i]]] : vs \in [1..n -> YoyVals] } :
              n \in 0..MaxSeriesLen }

InitYoy ==
    /\ IdleSolve /\ IdleCheck /\ IdleChain /\ IdleResolve /\ IdleSeries /\ IdleIndex
    /\ call_args \in YoySeries
    /\ call_ret = Pending
    /\ IdleEmbed

ComputeYoy ==
    /\ ~call_ret.done
    /\ call_ret' = Done(_compute_yoy(call_args))
    /\ UNCHANGED call_args
    /\ UNCHANGED embedVars
    /\ UNCHANGED <<solveVars, checkVars, chainVars, resolveVars, seriesVars, indexVars>>

NextYoy == ComputeYoy

SpecYoy == InitYoy /\ [][NextYoy]_vars

\* C18: for a series without missing values the year-over-year view is
\* returned; a view that is returned has len(s) - 1 entries (none for an
\* empty or one-point series), entry i carries the year of s[i], is None when
\* v[i-1] is missing or zero and otherwise is the number that, multiplied by
\* v[i-1], gives v[i] - v[i-1]; the series 100, 120, 90 of 2021..2023 gives
\* 1/5 for 2022 and -1/4 for 2023.
C18_YoyView ==
    call_ret.done =>
        LET s == call_args
            out == call_ret.val
        IN  /\ (\A i \in 1..Len(s) : IsNum(s[i].value)) => call_ret.ok
            /\ call_ret.ok =>
                  /\ Len(out) = (IF Len(s) <= 1 THEN 0 ELSE Len(s) - 1)
                  /\ \A i \in 1..Len(out) :
                        /\ out[i].year = s[i + 1].year
                        /\ (IsNone(s[i].value) \/ IsZero(s[i].value)) => out[i].value = NoneV
                        /\ (IsNum(s[i].value) /\ ~IsZero(s[i].value)) =>
                              /\ IsNum(out[i].value)
                              /\ Mul(out[i].value, s[i].value) = Sub(s[i + 1].value, s[i].value)
            /\ s = <<[year |-> 2021, value |-> Int2Num(100)], [year |-> 2022, value |-> Int2Num(120)],
                     [year |-> 2023, value |-> Int2Num(90)]>>
                  => /\ call_ret.ok
                     /\ out = <<[year |-> 2022, value |-> Num(1, 5)],
                                [year |-> 2023, value |-> Num(-1, 4)]>>

C18_Witness ==
    /\ call_ret.done
    /\ call_ret.ok
    /\ Len(call_args) = 3
    /\ IsZero(call_args[1].value)
    /\ call_ret.val = <<[year |-> 2022, value |-> NoneV], [year |-> 2023, value |-> Num(-1, 4)]>>

----------------------------------------------------------------------------
(* atlas/cost_structure.py: compute_fixed_variable_split *)

\* the buckets, in the order compute_cost_buckets builds them
Buckets == <<"COGS", "RnD", "SalesMarketing", "GandA">>

\* variant: Sales & Marketing taken as fixed
DefaultSharesNoSemi(bucket) == IF bucket = "COGS" THEN Int2Num(1) ELSE Int2Num(0)

\* default_shares.get(bucket, 0.0)
default_shares(bucket) ==
    CASE bucket = "COGS" -> Int2Num(1)
      [] bucket = "RnD" -> Int2Num(0)
      [] bucket = "SalesMarketing" -> Half
      [] bucket = "GandA" -> Int2Num(0)
      [] OTHER -> Int2Num(0)

\* max(0.0, min(elas, 1.0))
ClampShare(elas) ==
    LET least == IF Less(Int2Num(1), elas) THEN Int2Num(1) ELSE elas
    IN  IF Less(least, Int2Num(0)) THEN Int2Num(0) ELSE least

\* self._safe_div(num, den)
_safe_div(num, den) == IF IsNone(num) \/ IsNone(den) \/ IsZero(den) THEN NoneV ELSE Div(num, den)

\* the running sums after the buckets from position k on, for period p
RECURSIVE SplitSums(_, _, _, _, _)
SplitSums(buckets, elasticities, p, k, acc) ==
    IF k > Len(Buckets) THEN acc
    ELSE LET bucket == Buckets[k]
             cost == buckets[bucket][p]
             elas == elasticities[bucket][p]
             share == IF ~IsNone(elas) THEN ClampShare(elas) ELSE default_shares(bucket)
         IN  SplitSums(buckets, elasticities, p, k + 1,
                       IF IsNone(cost) THEN acc
                       ELSE [total_cost |-> Add(acc.total_cost, cost),
                             total_variable |-> Add(acc.total_variable, Mul(cost, share)),
                             shares |-> [b \in DOMAIN acc.shares \cup {bucket} |->
                                            IF b = bucket THEN share ELSE acc.shares[b]]])

\* buckets and elasticities map bucket and period to a number, None or
\* Absent (no such key); the result holds, per period, what results and
\* bucket_variable_shares hold for it
compute_fixed_variable_split(buckets, elasticities, all_periods) ==
    LET sorted_periods == { p \in all_periods : \E k \in 1..Len(Buckets) : buckets[Buckets[k]][p] # Absent }
        Sums(p) == SplitSums(buckets, elasticities, p, 1,
                             [total_cost |-> Int2Num(0), total_variable |-> Int2Num(0),
                              shares |-> [b \in {} |-> Int2Num(0)]])
    IN  [p \in sorted_periods |->
            [total |-> Sums(p).total_cost,
             variable_cost |-> Sums(p).total_variable,
             fixed_cost |-> Sub(Sums(p).total_cost, Sums(p).total_variable),
             variable_share |-> _safe_div(Sums(p).total_variable, Sums(p).total_cost),
             bucket_variable_shares |-> Sums(p).shares]]

SplitPeriods == {2022, 2023}

\* the costs and elasticities of 2022
SplitFirst ==
    { [cost |-> [COGS |-> a, RnD |-> b, SalesMarketing |-> c, GandA |-> d],
       elas |-> [COGS |-> e, RnD |-> f, SalesMarketing |-> g, GandA |-> h]] :
        a \in {NoneV, Int2Num(0), Int2Num(600)}, b \in {Absent, Int2Num(100)},
        c \in {NoneV, Int2Num(0), Int2Num(150)}, d \in {Absent, Int2Num(50)},
        e \in {NoneV, Half}, f \in {Absent, Int2Num(2)},
        g \in {NoneV, Int2Num(-1)}, h \in {Absent, Num(1, 4)} }

\* the costs and elasticities of 2023
SplitSecond ==
    { [cost |-> [COGS |-> a, RnD |-> Absent, SalesMarketing |-> c, GandA |-> Absent],
       elas |-> [COGS |-> e, RnD |-> Absent, SalesMarketing |-> Absent, GandA |-> Absent]] :
        a \in {Absent, Int2Num(600)}, c \in {Absent, Int2Num(-600)}, e \in {Absent, Int2Num(1)} }

SplitInputs ==
    { [buckets |-> [b \in {"COGS", "RnD", "SalesMarketing", "GandA"} |->
                        [p \in SplitPeriods |-> IF p = 2022 THEN x.cost[b] ELSE y.cost[b]]],
       elasticities |-> [b \in {"COGS", "RnD", "SalesMarketing", "GandA"} |->
                        [p \in SplitPeriods |-> IF p = 2022 THEN x.elas[b] ELSE y.elas[b]]]] :
        x \in SplitFirst, y \in SplitSecond }

InitSplit ==
    /\ IdleSolve /\ IdleCheck /\ IdleChain /\ IdleResolve /\ IdleSeries /\ IdleIndex
    /\ call_args \in SplitInputs
    /\ call_ret = Pending
    /\ IdleEmbed

ComputeSplit ==
    /\ ~call_ret.done
    /\ call_ret' = Done(Ok(compute_fixed_variable_split(call_args.buckets, call_args.elasticities,
                                                         SplitPeriods)))
    /\ UNCHANGED call_args
    /\ UNCHANGED embedVars
    /\ UNCHANGED <<solveVars, checkVars, chainVars, resolveVars, seriesVars, indexVars>>

NextSplit == ComputeSplit

SpecSplit == InitSplit /\ [][NextSplit]_vars

\* what bucket b adds to the variable cost of period p: nothing when it has
\* no cost there, else its cost times the elasticity cut to 0..1, or times
\* the default share when the elasticity is undefined
VariablePart(b, p) ==
    LET cost == call_args.buckets[b][p]
        elas == call_args.elasticities[b][p]
    IN  IF ~IsNum(cost) THEN Int2Num(0)
        ELSE IF IsNum(elas)
             THEN (IF Less(elas, Int2Num(0)) THEN Int2Num(0)
                   ELSE IF Less(Int2Num(1), elas) THEN cost ELSE Mul(cost, elas))
        ELSE IF b = "COGS" THEN cost
        ELSE IF b = "SalesMarketing" THEN Div(cost, Int2Num(2))
        ELSE Int2Num(0)

CostPart(b, p) ==
    IF IsNum(call_args.buckets[b][p]) THEN call_args.buckets[b][p] ELSE Int2Num(0)

\* C19: for every period with a cost entry, the variable cost is the sum
\* over the buckets with a cost of cost times share (the elasticity cut to
\* 0..1, or the default COGS 1, R&D 0, Sales & Marketing 1/2, G&A 0), the
\* fixed cost is total minus variable, and the aggregate share is
\* variable/total, None when the total is zero; costs 600, 100, 150, 50
\* without elasticities give 675, 225 and 3/4.
C19_Split ==
    call_ret.done =>
        \A p \in DOMAIN call_ret.val :
            LET r == call_ret.val[p]
                variable == Add(Add(VariablePart("COGS", p), VariablePart("RnD", p)),
                                Add(VariablePart("SalesMarketing", p), VariablePart("GandA", p)))
                total == Add(Add(CostPart("COGS", p), CostPart("RnD", p)),
                             Add(CostPart("SalesMarketing", p), CostPart("GandA", p)))
                NoElasticity == \A k \in 1..Len(Buckets) : IsNone(call_args.elasticities[Buckets[k]][p])
                Example == /\ call_args.buckets["COGS"][p] = Int2Num(600)
                           /\ call_args.buckets["RnD"][p] = Int2Num(100)
                           /\ call_args.buckets["SalesMarketing"][p] = Int2Num(150)
                           /\ call_args.buckets["GandA"][p] = Int2Num(50)
            IN  /\ r.variable_cost = variable
                /\ r.total = total
                /\ r.fixed_cost = Sub(total, variable)
                /\ IsZero(total) <=> r.variable_share = NoneV
                /\ ~IsZero(total) => Mul(r.variable_share, total) = variable
                /\ (Example /\ NoElasticity) =>
                       /\ r.variable_cost = Int2Num(675)
                       /\ r.fixed_cost = Int2Num(225)
                       /\ r.variable_share = Num(3, 4)

C19_Witness ==
    /\ call_ret.done
    /\ DOMAIN call_ret.val = {2022, 2023}
    /\ call_ret.val[2022].variable_cost = Int2Num(675)
    /\ call_ret.val[2022].variable_share = Num(3, 4)
    /\ call_ret.val[2023].total = Int2Num(0)
    /\ call_ret.val[2023].variable_cost = Int2Num(300)
    /\ call_ret.val[2023].variable_share = NoneV

----------------------------------------------------------------------------
(* atlas/cost_structure.py: _ema *)

\* alpha = 1 - exp(-ln(2) / half_life) with half_life = 3 is 0.2063...;
\* the exact arithmetic here takes 1/5
Alpha == Num(1, 5)

\* variant: a missing value smoothed in as 0
EmaStepGapAsZero(current_ema, v) ==
    LET x == IF IsNone(v) THEN Int2Num(0) ELSE v
    IN  IF IsNone(current_ema) THEN x
        ELSE Add(Mul(Alpha, x), Mul(Sub(Int2Num(1), Alpha), current_ema))

\* the body of "for v in values": the value of current_ema after it
EmaStep(current_ema, v) ==
    IF ~IsNone(v)
    THEN (IF IsNone(current_ema) THEN v
          ELSE Add(Mul(Alpha, v), Mul(Sub(Int2Num(1), Alpha), current_ema)))
    ELSE current_ema

\* current_ema after the first k values
RECURSIVE EmaAfter(_, _)
EmaAfter(values, k) == IF k = 0 THEN NoneV ELSE EmaStep(EmaAfter(values, k - 1), values[k])

_ema(values) == [k \in 1..Len(values) |-> EmaAfter(values, k)]

EmaInputs == UNION { [1..n -> {NoneV, Int2Num(0), Int2Num(1), Int2Num(2)}] : n \in 0..MaxSeriesLen }

InitEma ==
    /\ IdleSolve /\ IdleCheck /\ IdleChain /\ IdleResolve /\ IdleSeries /\ IdleIndex
    /\ call_args \in EmaInputs
    /\ call_ret = Pending
    /\ IdleEmbed

ComputeEma ==
    /\ ~call_ret.done
    /\ call_ret' = Done(Ok(_ema(call_args)))
    /\ UNCHANGED call_args
    /\ UNCHANGED embedVars
    /\ UNCHANGED <<solveVars, checkVars, chainVars, resolveVars, seriesVars, indexVars>>

NextEma == ComputeEma

SpecEma == InitEma /\ [][NextEma]_vars

\* C20: the smoothed list is as long as the input; its first entry is the
\* first input when that is defined; at a missing input the entry repeats
\* the entry before it, and an entry is None exactly when no input up to
\* there is defined.
C20_CarryForward ==
    call_ret.done =>
        LET values == call_args
            out == call_ret.val
        IN  /\ Len(out) = Len(values)
            /\ (Len(values) >= 1 /\ ~IsNone(values[1])) => out[1] = values[1]
            /\ \A i \in 1..Len(values) :
                  /\ (IsNone(values[i]) /\ i > 1) => out[i] = out[i - 1]
                  /\ out[i] = NoneV <=> \A j \in 1..i : IsNone(values[j])

C20_Witness ==
    /\ call_ret.done
    /\ call_args = <<Int2Num(1), NoneV, Int2Num(2)>>
    /\ call_ret.val = <<Int2Num(1), Int2Num(1), Num(6, 5)>>

----------------------------------------------------------------------------
(* atlas/atlas.py: Atlas.get *)

\* variant: the override taken from 70% on
DisagreesFrom70(val, pdf_val) ==
    /\ ~IsZero(val) /\ ~IsZero(pdf_val)
    /\ ~Less(AbsNum(Div(Sub(val, pdf_val), pdf_val)), Num(7, 10))

\* "if val != 0 and pdf_val != 0: diff = abs((val - pdf_val) / pdf_val);
\* if diff > 0.7"
Disagrees(val, pdf_val) ==
    /\ ~IsZero(val) /\ ~IsZero(pdf_val)
    /\ Less(Num(7, 10), AbsNum(Div(Sub(val, pdf_val), pdf_val)))

\* the concepts answered from market data
ValuationConcepts == {"MarketCap", "Price", "EnterpriseValue", "SharesOutstanding"}

\* a: canonical, the resolved concept; valuation, what the market-data getter
\* returns; val, what get_concept_value returns; pdf_files, whether the
\* filing directory holds a PDF; pdf_data, the extraction for the concept
\* (year -> value, Absent for no key); year, 0 for None
get(a) ==
    LET keys == { y \in DOMAIN a.pdf_data : a.pdf_data[y] # Absent }
        max_y == CHOOSE y \in keys : \A z \in keys : z <= y
        pdf_val == IF a.year # 0
                   THEN (IF a.year \in keys THEN a.pdf_data[a.year] ELSE NoneV)
                   ELSE a.pdf_data[max_y]
    IN  IF a.canonical \in ValuationConcepts THEN a.valuation
        ELSE IF ~a.pdf_files THEN a.val
        ELSE IF keys = {} THEN a.val
        ELSE IF IsNone(pdf_val) THEN a.val
        ELSE IF IsNone(a.val) THEN pdf_val
        ELSE IF Disagrees(a.val, pdf_val) THEN pdf_val
        ELSE a.val

GetInputs ==
    [canonical : {"Revenue", "MarketCap"},
     valuation : {Int2Num(5)},
     val : {NoneV, Int2Num(0), Int2Num(2), Int2Num(3), Int2Num(10)},
     pdf_files : BOOLEAN,
     pdf_data : [{2022, 2023} -> {Absent, Int2Num(0), Int2Num(10)}],
     year : {0, 2021, 2022, 2023}]

InitGet ==
    /\ IdleSolve /\ IdleCheck /\ IdleChain /\ IdleResolve /\ IdleSeries /\ IdleIndex
    /\ call_args \in GetInputs
    /\ call_ret = Pending
    /\ IdleEmbed

Get ==
    /\ ~call_ret.done
    /\ call_ret' = Done(Ok(get(call_args)))
    /\ UNCHANGED call_args
    /\ UNCHANGED embedVars
    /\ UNCHANGED <<solveVars, checkVars, chainVars, resolveVars, seriesVars, indexVars>>

NextGet == Get

SpecGet == InitGet /\ [][NextGet]_vars

\* the unstructured value for the requested year (the latest year of the
\* extraction when no year is asked for), NoneV when there is none
Unstructured ==
    LET a == call_args
        years == { y \in {2022, 2023} : a.pdf_data[y] # Absent }
    IN  IF ~a.pdf_files \/ years = {} THEN NoneV
        ELSE IF a.year = 0 THEN a.pdf_data[CHOOSE y \in years : \A z \in years : z <= y]
        ELSE IF a.year \in years THEN a.pdf_data[a.year]
        ELSE NoneV

\* |val - pdf| > 70% of |pdf|
Over70(val, pdf) ==
    Less(Mul(Num(7, 10), AbsNum(pdf)), AbsNum(Sub(val, pdf)))

\* C21 as stated: for a concept read from the filing with an unstructured
\* value, get returns the unstructured value when the structured value is
\* absent or differs from it by more than 70% of it, also for a structured
\* value of zero, and the structured value otherwise.
C21_Override ==
    (call_ret.done /\ call_args.canonical \notin ValuationConcepts /\ IsNum(Unstructured)) =>
        call_ret.val = IF IsNone(call_args.val) \/ Over70(call_args.val, Unstructured)
                       THEN Unstructured ELSE call_args.val

\* C21: for a concept read from the filing with an unstructured value, get
\* returns the unstructured value when the structured value is absent, or
\* when both values are non-zero and they differ by more than 70% of the
\* unstructured value; it returns the structured value otherwise, so also
\* whenever one of the two values is zero.
C21_OverrideNonZero ==
    (call_ret.done /\ call_args.canonical \notin ValuationConcepts /\ IsNum(Unstructured)) =>
        call_ret.val = IF IsNone(call_args.val) THEN Unstructured
                       ELSE IF IsZero(call_args.val) \/ IsZero(Unstructured) THEN call_args.val
                       ELSE IF Over70(call_args.val, Unstructured) THEN Unstructured
                       ELSE call_args.val

C21_Witness ==
    /\ call_ret.done
    /\ call_args.canonical = "Revenue"
    /\ call_args.year = 0
    /\ call_args.val = Int2Num(2)
    /\ call_args.pdf_data[2022] = Int2Num(0)
    /\ Unstructured = Int2Num(10)
    /\ call_ret.val = Int2Num(10)

----------------------------------------------------------------------------
(* xbrl/concept_resolver.py: embed and _load_model, called from several     *)
(* threads                                                                  *)

MaxCalls == 2

EmbedTexts == {"Revenue", "Sales"}

\* "@functools.lru_cache(maxsize=4096)"
maxsize == 4096

\* SentenceTransformer("all-MiniLM-L6-v2"): every instance holds the weights
\* of the one checkpoint
Weights(m) == "all-MiniLM-L6-v2"

\* model.encode([text])[0], divided by its norm
Encode(m, text) == [weights |-> Weights(m), text |-> text, unit |-> TRUE]

Keys(c) == { c[k].key : k \in 1..Len(c) }

Lookup(c, key) == c[CHOOSE k \in 1..Len(c) : c[k].key = key].val

Without(c, key) == SelectSeq(c, LAMBDA e : e.key # key)

\* a hit makes the entry the most recently used
Touch(c, key) == Append(Without(c, key), [key |-> key, val |-> Lookup(c, key)])

\* variant: every new key takes the place of the least recently used entry
StoreInPlace(c, key, val) ==
    IF key \in Keys(c) THEN c
    ELSE Append(IF c = <<>> THEN c ELSE Tail(c), [key |-> key, val |-> val])

\* the wrapper after the call: a key added meanwhile is left as it is; a full
\* cache gives up its least recently used entry
Store(c, key, val) ==
    IF key \in Keys(c) THEN c
    ELSE IF Len(c) >= maxsize THEN Append(Tail(c), [key |-> key, val |-> val])
    ELSE Append(c, [key |-> key, val |-> val])

InitEmbed ==
    /\ IdleSolve /\ IdleCheck /\ IdleChain /\ IdleResolve /\ IdleSeries /\ IdleIndex /\ IdleCalls
    /\ installed \in BOOLEAN
    /\ _model = 0
    /\ loads = 0
    /\ cache = <<>>
    /\ th = [t \in Threads |-> NoCall]
    /\ returned = {}

Ends(t, r) ==
    /\ returned' = returned \cup {r}
    /\ th' = [th EXCEPT ![t] = [NoCall EXCEPT !.calls = th[t].calls + 1]]

\* embed(text), the text in the cache: the wrapper answers
EmbedHit(t) ==
    /\ th[t].pc = "idle" /\ th[t].calls < MaxCalls
    /\ \E text \in EmbedTexts :
         /\ text \in Keys(cache)
         /\ cache' = Touch(cache, text)
         /\ Ends(t, [text |-> text, ok |-> TRUE, val |-> Lookup(cache, text)])
    /\ UNCHANGED <<installed, _model, loads>>
    /\ UNCHANGED <<solveVars, checkVars, chainVars, resolveVars, seriesVars, indexVars, callVars>>

\* embed(text), the text not in the cache: the wrapper calls the function
EmbedMiss(t) ==
    /\ th[t].pc = "idle" /\ th[t].calls < MaxCalls
    /\ \E text \in EmbedTexts :
         /\ text \notin Keys(cache)
         /\ th' = [th EXCEPT ![t].pc = "test", ![t].text = text]
    /\ UNCHANGED <<installed, _model, loads, cache, returned>>
    /\ UNCHANGED <<solveVars, checkVars, chainVars, resolveVars, seriesVars, indexVars, callVars>>

\* "if _model is None", and it is not
TestLoaded(t) ==
    /\ th[t].pc = "test" /\ _model # 0
    /\ th' = [th EXCEPT ![t].pc = "return"]
    /\ UNCHANGED <<installed, _model, loads, cache, returned>>
    /\ UNCHANGED <<solveVars, checkVars, chainVars, resolveVars, seriesVars, indexVars, callVars>>

\* "if _model is None: if SentenceTransformer:"
TestNone(t) ==
    /\ th[t].pc = "test" /\ _model = 0 /\ installed
    /\ th' = [th EXCEPT ![t].pc = "construct"]
    /\ UNCHANGED <<installed, _model, loads, cache, returned>>
    /\ UNCHANGED <<solveVars, checkVars, chainVars, resolveVars, seriesVars, indexVars, callVars>>

\* "else: raise ImportError": embed raises, nothing is cached
RaiseImport(t) ==
    /\ th[t].pc = "test" /\ _model = 0 /\ ~installed
    /\ Ends(t, [text |-> th[t].text, ok |-> FALSE, val |-> "ImportError"])
    /\ UNCHANGED <<installed, _model, loads, cache>>
    /\ UNCHANGED <<solveVars, checkVars, chainVars, resolveVars, seriesVars, indexVars, callVars>>

\* "_model = SentenceTransformer(...)"
Construct(t) ==
    /\ th[t].pc = "construct"
    /\ loads' = loads + 1
    /\ _model' = loads + 1
    /\ th' = [th EXCEPT ![t].pc = "return"]
    /\ UNCHANGED <<installed, cache, returned>>
    /\ UNCHANGED <<solveVars, checkVars, chainVars, resolveVars, seriesVars, indexVars, callVars>>

\* "return _model"
ReturnModel(t) ==
    /\ th[t].pc = "return"
    /\ th' = [th EXCEPT ![t].pc = "encode", ![t].model = _model]
    /\ UNCHANGED <<installed, _model, loads, cache, returned>>
    /\ UNCHANGED <<solveVars, checkVars, chainVars, resolveVars, seriesVars, indexVars, callVars>>

\* "vec = model.encode([text])[0]; return vec / np.linalg.norm(vec)"
EncodeText(t) ==
    /\ th[t].pc = "encode"
    /\ th' = [th EXCEPT ![t].pc = "store", ![t].vec = Encode(th[t].model, th[t].text)]
    /\ UNCHANGED <<installed, _model, loads, cache, returned>>
    /\ UNCHANGED <<solveVars, checkVars, chainVars, resolveVars, seriesVars, indexVars, callVars>>

\* the wrapper records the result and hands it to the caller
StoreResult(t) ==
    /\ th[t].pc = "store"
    /\ cache' = Store(cache, th[t].text, th[t].vec)
    /\ Ends(t, [text |-> th[t].text, ok |-> TRUE, val |-> th[t].vec])
    /\ UNCHANGED <<installed, _model, loads>>
    /\ UNCHANGED <<solveVars, checkVars, chainVars, resolveVars, seriesVars, indexVars, callVars>>

NextEmbed ==
    \E t \in Threads :
        \/ EmbedHit(t) \/ EmbedMiss(t) \/ TestLoaded(t) \/ TestNone(t) \/ RaiseImport(t)
        \/ Construct(t) \/ ReturnModel(t) \/ EncodeText(t) \/ StoreResult(t)

SpecEmbed == InitEmbed /\ [][NextEmbed]_vars

----------------------------------------------------------------------------
(* xbrl/concept_resolver.py: resolve_to_fact *)

\* a tag name: an optional taxonomy prefix and the CamelCase words after it;
\* no text here holds a space
Tag(px, ws) == [px |-> px, ws |-> ws]

NoTag == Tag(FALSE, <<>>)

\* PREFIX_RE.sub("", name)
StripTag(t) == Tag(FALSE, t.ws)

\* str.lower() of the words that occur
LowerWord ==
    [w \in {"Income", "Tax", "Expense", "Benefit", "Continuing", "Operating"} |->
        CASE w = "Income" -> "income" [] w = "Tax" -> "tax" [] w = "Expense" -> "expense"
          [] w = "Benefit" -> "benefit" [] w = "Continuing" -> "continuing"
          [] w = "Operating" -> "operating"]

\* the keywords of classify_concept and of the penalties found in a word
KeywordsIn ==
    [w \in {"income", "tax", "expense", "benefit", "continuing", "operating"} |->
        CASE w = "income" -> {"income"} [] w = "tax" -> {"tax"}
          [] w = "operating" -> {"operating", "operat"}
          [] OTHER -> {}]

\* "kw in t" for the lowered text of t
Has(t, kw) == \E k \in 1..Len(t.ws) : kw \in KeywordsIn[LowerWord[t.ws[k]]]

classify_concept(t) ==
    IF Has(t, "tax") THEN "Tax"
    ELSE IF Has(t, "revenue") \/ Has(t, "sales") THEN "Revenue"
    ELSE IF Has(t, "cogs") THEN "COGS"
    ELSE IF Has(t, "operating") \/ Has(t, "ebit") THEN "Operating"
    ELSE IF Has(t, "interest") \/ Has(t, "debt") THEN "Financing"
    ELSE IF Has(t, "share") \/ Has(t, "eps") THEN "EPS"
    ELSE IF Has(t, "income") \/ Has(t, "loss") \/ Has(t, "profit") \/ Has(t, "earnings")
         THEN "Operating"
    ELSE "Other"

\* {t.lower() for t in tokenize(text)}
LowTokens(t) == { LowerWord[t.ws[k]] : k \in 1..Len(t.ws) }

keyword_overlap_score(query, fact_name) ==
    IF LowTokens(query) = {} THEN Int2Num(0)
    ELSE Num(Cardinality(LowTokens(query) \cap LowTokens(fact_name)),
             Cardinality(LowTokens(query)))

\* the score of one name: 0.60*sim + 0.25*overlap + cat_score - penalty
FinalScore(query_base, name_base, sim) ==
    LET query_cat == classify_concept(query_base)
        fact_cat == classify_concept(name_base)
        overlap == keyword_overlap_score(query_base, name_base)
        cat_score == IF query_cat = fact_cat /\ query_cat # "Other" THEN Num(15, 100)
                     ELSE IF query_cat = "Operating" /\ fact_cat = "Tax" THEN Num(-15, 100)
                     ELSE IF query_cat = "Tax" /\ fact_cat = "Operating" THEN Num(-15, 100)
                     ELSE Int2Num(0)
        p1 == IF Has(query_base, "operat") /\ Has(name_base, "tax") THEN Num(20, 100) ELSE Int2Num(0)
        p2 == IF Has(query_base, "tax") /\ Has(name_base, "operat") THEN Num(20, 100) ELSE Int2Num(0)
    IN  Sub(Add(Add(Mul(Num(60, 100), sim), Mul(Num(25, 100), overlap)), cat_score), Add(p1, p2))

\* "for name in unique_names: ... if final > best_score", names in the order
\* the set yields them; best = NoTag stands for best_score = -inf
RECURSIVE ScanNames(_, _, _, _, _, _)
ScanNames(query_base, names, sims, k, best, best_score) ==
    IF k > Len(names) THEN [best |-> best, best_score |-> best_score]
    ELSE LET final == FinalScore(query_base, StripTag(names[k]), sims[StripTag(names[k])])
         IN  IF best = NoTag \/ Less(best_score, final)
             THEN ScanNames(query_base, names, sims, k + 1, names[k], final)
             ELSE ScanNames(query_base, names, sims, k + 1, best, best_score)

\* f.get("name") or f.get("tag"), the empty ones left out
UniqueNames(fs) == { fs[k] : k \in 1..Len(fs) } \ {NoTag}

\* names: unique_names in the order its iteration yields
resolve_to_fact(query, names, sims) ==
    LET r == ScanNames(StripTag(query), names, sims, 1, NoTag, Int2Num(0))
    IN  IF names = <<>> THEN NoTag
        ELSE IF ~Less(r.best_score, Num(40, 100)) THEN r.best
        ELSE NoTag

\* the orders in which a set may yield its elements
IterationOrders(S) ==
    { o \in [1..Cardinality(S) -> S] : \A i, j \in 1..Cardinality(S) : o[i] = o[j] => i = j }

TagPool ==
    { NoTag,
      Tag(FALSE, <<"Income", "Tax", "Expense", "Benefit">>),
      Tag(TRUE, <<"Income", "Tax", "Expense", "Benefit">>),
      Tag(FALSE, <<"Income", "Tax", "Expense", "Continuing">>),
      Tag(FALSE, <<"Operating", "Income">>) }

\* embedding_similarity(query, name) per stripped name: 0.0 throughout when
\* the backend is missing, else what the backend scores
SimPool ==
    [{ StripTag(t) : t \in TagPool \ {NoTag} } -> {Int2Num(0), Num(1, 2)}]

FactInputs ==
    [query : {Tag(FALSE, <<"Income", "Tax", "Expense">>), Tag(TRUE, <<"Operating", "Income">>)},
     all_facts : UNION { [1..n -> TagPool] : n \in 0..MaxFacts },
     sims : SimPool,
     order : {<<>>}]

InitFact ==
    /\ IdleSolve /\ IdleCheck /\ IdleChain /\ IdleResolve /\ IdleSeries /\ IdleIndex
    /\ call_args \in FactInputs
    /\ call_ret = Pending
    /\ IdleEmbed

ResolveToFact ==
    /\ ~call_ret.done
    /\ \E o \in IterationOrders(UniqueNames(call_args.all_facts)) :
         /\ call_args' = [call_args EXCEPT !.order = o]
         /\ call_ret' = Done(Ok(resolve_to_fact(call_args.query, o, call_args.sims)))
    /\ UNCHANGED embedVars
    /\ UNCHANGED <<solveVars, checkVars, chainVars, resolveVars, seriesVars, indexVars>>

NextFact == ResolveToFact

SpecFact == InitFact /\ [][NextFact]_vars

\* C24: the tag resolve_to_fact returns is the one it returns for every
\* other order in which the set of distinct names may be iterated.
C24_OrderFree ==
    call_ret.done =>
        \A o \in IterationOrders(UniqueNames(call_args.all_facts)) :
            resolve_to_fact(call_args.query, o, call_args.sims) = call_ret.val

----------------------------------------------------------------------------
(* atlas/unit_economics.py: compute_unit_economics, lines 30-157 and the    *)
(* fields of the result they decide; xbrl/fact_extractor.py:                *)
(* get_concept_value. The call of compute_all at line 160 is the chain      *)
(* above; it decides the other fields.                                      *)

\* bool(x) of a value or None
Truthy(x) == IsNum(x) /\ ~IsZero(x)

\* "x or y"
OrElse(x, y) == IF Truthy(x) THEN x ELSE y

\* dated.sort(key=abs(y - year)); dated[0]: the first of the nearest
NearestFirst(dated, year) ==
    CHOOSE k \in 1..Len(dated) :
        /\ \A j \in 1..Len(dated) : Abs(dated[k].year - year) <= Abs(dated[j].year - year)
        /\ \A j \in 1..(k - 1) : Abs(dated[j].year - year) > Abs(dated[k].year - year)

\* dated.sort(key=year); dated[-1]: the last of the latest
LatestLast(dated) ==
    CHOOSE k \in 1..Len(dated) :
        /\ \A j \in 1..Len(dated) : dated[j].year <= dated[k].year
        /\ \A j \in (k + 1)..Len(dated) : dated[j].year < dated[k].year

\* the period matching of get_concept_value; dated: the matching facts that
\* have a year, in document order; year: 0 for None
get_concept_value(dated, year) ==
    LET exact == SelectSeq(dated, LAMBDA x : x.year = year)
    IN  IF dated = <<>> THEN NoneV
        ELSE IF year # 0 /\ exact # <<>> THEN exact[Len(exact)].value
        ELSE IF year # 0 THEN dated[NearestFirst(dated, year)].value
        ELSE dated[LatestLast(dated)].value

\* atlas.get(resolve(name), year) in a filing directory without a PDF
AtlasGet(f, name, year) ==
    get([canonical |-> name, valuation |-> NoneV, val |-> get_concept_value(f[name], year),
         pdf_files |-> FALSE, pdf_data |-> [y \in {2022, 2023} |-> Absent], year |-> year])

\* sorted(set(year of f for f in atlas.facts)), as a set
FactYears(f) == UNION { { f[c][k].year : k \in 1..Len(f[c]) } : c \in DOMAIN f }

LatestYear(f) == CHOOSE y \in FactYears(f) : \A z \in FactYears(f) : z <= y

\* max(0.0, min(tax_provision / pre_tax, 0.5)), or the 0.21 assumed
TaxRateOf(tax_provision, pre_tax) ==
    IF Truthy(tax_provision) /\ Truthy(pre_tax) /\ Less(Int2Num(0), pre_tax)
    THEN LET r == Div(tax_provision, pre_tax)
             m == IF Less(Num(1, 2), r) THEN Num(1, 2) ELSE r
         IN  IF Less(m, Int2Num(0)) THEN Int2Num(0) ELSE m
    ELSE Num(21, 100)

\* lines 91-107
DeltaWorkingCapitalOf(f) ==
    LET wc_curr == AtlasGet(f, "WorkingCapital", LatestYear(f))
        wc_prev == AtlasGet(f, "WorkingCapital", LatestYear(f) - 1)
    IN  IF FactYears(f) = {} THEN Absent
        ELSE IF ~IsNone(wc_curr) /\ ~IsNone(wc_prev) THEN Sub(wc_curr, wc_prev)
        ELSE Int2Num(0)

\* lines 109-116
MaintenanceCapexOf(f) ==
    LET depr == AtlasGet(f, "DepreciationAmortization", 0)
        ppe_curr == AtlasGet(f, "PropertyPlantAndEquipmentNet", 0)
        ppe_prev == IF FactYears(f) # {}
                    THEN AtlasGet(f, "PropertyPlantAndEquipmentNet", LatestYear(f) - 1)
                    ELSE NoneV
        m == Sub(depr, Sub(ppe_curr, ppe_prev))
    IN  IF ~IsNone(depr) /\ ~IsNone(ppe_curr) /\ ~IsNone(ppe_prev)
        THEN (IF Less(m, Int2Num(0)) THEN Int2Num(0) ELSE m)
        ELSE NoneV

\* "if inputs.get(k) is None: inputs[k] = 0.0"
ZeroIfNone(x) == IF IsNone(x) THEN Int2Num(0) ELSE x

\* lines 30-137: the mapping given to the solver; no volume driver resolved
BuildInputs(f) ==
    LET cogs == IF IsNone(AtlasGet(f, "CostOfRevenue", 0))
                THEN AtlasGet(f, "CostOfGoodsAndServicesSold", 0)
                ELSE AtlasGet(f, "CostOfRevenue", 0)
        sales_marketing == AtlasGet(f, "SellingAndMarketingExpense", 0)
        sga == AtlasGet(f, "SellingGeneralAndAdministrative", 0)
        wc == AtlasGet(f, "WorkingCapital", 0)
        cash == AtlasGet(f, "CashAndCashEquivalents", 0)
    IN  [s \in Symbols |->
          CASE s = "Revenue" -> AtlasGet(f, "Revenue", 0)
            [] s = "OperatingIncome" -> AtlasGet(f, "OperatingIncome", 0)
            [] s = "TaxRate" -> TaxRateOf(AtlasGet(f, "IncomeTaxExpenseBenefit", 0),
                                          AtlasGet(f, "PreTaxIncome", 0))
            [] s = "COGS_variable" -> IF Truthy(cogs) THEN cogs ELSE Int2Num(0)
            [] s = "SalesMarketing" ->
                  IF Truthy(sales_marketing) THEN Mul(sales_marketing, Num(8, 10))
                  ELSE IF Truthy(sga) THEN Mul(sga, Num(4, 10)) ELSE Absent
            [] s = "RetentionMarketing" ->
                  IF Truthy(sales_marketing) THEN Mul(sales_marketing, Num(2, 10))
                  ELSE IF Truthy(sga) THEN Mul(sga, Num(1, 10)) ELSE Absent
            [] s = "Capex" -> ZeroIfNone(AtlasGet(f, "CapitalExpenditures", 0))
            [] s = "RnD" -> ZeroIfNone(AtlasGet(f, "ResearchAndDevelopmentExpense", 0))
            [] s = "DeltaWorkingCapital" -> ZeroIfNone(DeltaWorkingCapitalOf(f))
            [] s = "PPE" -> ZeroIfNone(AtlasGet(f, "PropertyPlantAndEquipmentNet", 0))
            [] s = "Goodwill" -> ZeroIfNone(AtlasGet(f, "Goodwill", 0))
            [] s = "AcquiredIntangibles" ->
                  ZeroIfNone(AtlasGet(f, "IntangibleAssetsNetExcludingGoodwill", 0))
            [] s = "NetWorkingCapital" ->
                  IF Truthy(wc) /\ Truthy(cash) THEN Sub(wc, cash) ELSE Int2Num(0)
            [] OTHER -> Absent]

\* lines 147-154
NopatTrue(solved_model, inputs, maintenance_capex) ==
    LET operating_income == OrElse(solved_model["OperatingIncome"], inputs["OperatingIncome"])
        tax_rate == OrElse(solved_model["TaxRate"], inputs["TaxRate"])
        nopat == Mul(operating_income, Sub(Int2Num(1), OrElse(tax_rate, Num(21, 100))))
    IN  IF IsNone(operating_income) THEN NoneV
        ELSE IF ~IsNone(maintenance_capex) THEN Sub(nopat, maintenance_capex)
        ELSE nopat

UnitResult(inputs, solved_model, maintenance_capex) ==
    [roic |-> IF IsNone(solved_model["ROIC"]) THEN NoneV ELSE solved_model["ROIC"],
     nopat_true |-> NopatTrue(solved_model, inputs, maintenance_capex),
     maintenance_capex |-> maintenance_capex,
     inputs |-> inputs,
     solved_model |-> solved_model]

SolveThen(inputs, maintenance_capex, b) ==
    UnitResult(inputs, solve_missing_values(inputs, b, SourceOrder), maintenance_capex)

compute_unit_economics(f, b) == SolveThen(BuildInputs(f), MaintenanceCapexOf(f), b)

FilingConcepts ==
    {"Revenue", "OperatingIncome", "IncomeTaxExpenseBenefit", "PreTaxIncome", "CostOfRevenue",
     "CostOfGoodsAndServicesSold", "SellingAndMarketingExpense", "SellingGeneralAndAdministrative",
     "CapitalExpenditures", "ResearchAndDevelopmentExpense", "WorkingCapital",
     "DepreciationAmortization", "PropertyPlantAndEquipmentNet", "Goodwill",
     "IntangibleAssetsNetExcludingGoodwill", "CashAndCashEquivalents"}

At(y, v) == [year |-> y, value |-> Int2Num(v)]

\* the facts of a filing for fiscal year 2023, per concept in document order
Filings ==
    { [c \in FilingConcepts |->
         CASE c = "WorkingCapital" -> wc
           [] c = "OperatingIncome" -> oi
           [] c = "IncomeTaxExpenseBenefit" -> tp
           [] c = "PreTaxIncome" -> pt
           [] c = "DepreciationAmortization" -> depr
           [] c = "PropertyPlantAndEquipmentNet" -> ppe
           [] c = "Goodwill" -> gw
           [] c = "CashAndCashEquivalents" -> cash
           [] OTHER -> <<>>] :
        wc \in UNION { [1..n -> {At(2021, 30), At(2022, 40), At(2023, 50)}] : n \in 0..2 },
        oi \in {<<>>, <<At(2023, 0)>>, <<At(2023, 100)>>},
        tp \in {<<>>, <<At(2023, -10)>>, <<At(2023, 20)>>},
        pt \in {<<>>, <<At(2023, 100)>>},
        depr \in {<<>>, <<At(2023, 5)>>},
        ppe \in {<<>>, <<At(2023, 50)>>, <<At(2022, 40), At(2023, 50)>>},
        gw \in {<<>>, <<At(2023, 10)>>},
        cash \in {<<>>, <<At(2023, 10)>>} }

InitUnit ==
    /\ IdleSolve /\ IdleCheck /\ IdleChain /\ IdleResolve /\ IdleSeries /\ IdleIndex
    /\ call_args \in [f : Filings, b : SolveLibs]
    /\ call_ret = Pending
    /\ IdleEmbed

ComputeUnit ==
    /\ ~call_ret.done
    /\ call_ret' = Done(Ok(compute_unit_economics(call_args.f, call_args.b)))
    /\ UNCHANGED call_args
    /\ UNCHANGED embedVars
    /\ UNCHANGED <<solveVars, checkVars, chainVars, resolveVars, seriesVars, indexVars>>

NextUnit == ComputeUnit

SpecUnit == InitUnit /\ [][NextUnit]_vars

\* C27: nopat_true is OperatingIncome * (1 - TaxRate) less the maintenance
\* capex when that is known, TaxRate being the rate given to the solver, a
\* rate of 0 included; and it is the solved NOPAT less the maintenance capex
\* whenever NOPAT was solved.
C27_NopatTrue ==
    call_ret.done =>
        LET r == call_ret.val
            less == IF IsNone(r.maintenance_capex) THEN Int2Num(0) ELSE r.maintenance_capex
        IN  /\ IsNum(r.inputs["OperatingIncome"]) =>
                r.nopat_true = Sub(Mul(r.inputs["OperatingIncome"],
                                       Sub(Int2Num(1), r.inputs["TaxRate"])), less)
            /\ IsNum(r.solved_model["NOPAT"]) =>
                r.nopat_true = Sub(r.solved_model["NOPAT"], less)

\* the last WorkingCapital fact of year y, NoneV when there is none
WorkingCapitalOf(f, y) ==
    LET of_y == SelectSeq(f["WorkingCapital"], LAMBDA x : x.year = y)
    IN  IF of_y = <<>> THEN NoneV ELSE of_y[Len(of_y)].value

\* C28: the DeltaWorkingCapital given to the solver is the working capital
\* of the latest year less that of the year before it when both years have
\* a value, and 0 otherwise.
C28_DeltaWorkingCapital ==
    call_ret.done =>
        LET f == call_args.f
            curr == IF FactYears(f) = {} THEN NoneV ELSE WorkingCapitalOf(f, LatestYear(f))
            prev == IF FactYears(f) = {} THEN NoneV ELSE WorkingCapitalOf(f, LatestYear(f) - 1)
        IN  call_ret.val.inputs["DeltaWorkingCapital"] =
                IF IsNum(curr) /\ IsNum(prev) THEN Sub(curr, prev) ELSE Int2Num(0)

\* C29: with OperatingIncome, TaxRate and the four capital components known
\* and the components of non-zero sum, the roic of the result is known.
C29_RoicKnown ==
    call_ret.done =>
        LET m == call_ret.val.inputs
        IN  (/\ \A s \in {"OperatingIncome", "TaxRate", "PPE", "NetWorkingCapital",
                            "Goodwill", "AcquiredIntangibles"} : IsNum(m[s])
             /\ ~IsZero(Add(Add(m["PPE"], m["NetWorkingCapital"]),
                            Add(m["Goodwill"], m["AcquiredIntangibles"]))))
            => IsNum(call_ret.val.roic)

====
